---- MODULE Spec2Model ----
(***************************************************************************)
(* Model of the Quantity value model (src/src/quantity.rs) and of the      *)
(* combat resolution pipeline (src/src/bullets_and_targets.rs) of          *)
(* Interplanetary Recombobulator, scheduled as in src/src/main.rs.         *)
(*                                                                         *)
(* f32 values are fixed-point integers in units of 1/SCALE, extended with  *)
(* the three non-finite values of IEEE 754 (PInf, NInf, NaN).              *)
(***************************************************************************)
EXTENDS Integers, Sequences, FiniteSets, TLC

VARIABLES
    \* a single Quantity driven through its public operations
    quantity,          \* the Quantity
    quantity_pre,      \* quantity before the last operation
    quantity_pre2,     \* quantity before the operation before that
    op,         \* the last operation applied to quantity ("new" at first)
    arg,        \* its argument
    op_prev,    \* the operation before the last one
    arg_prev    \* its argument

harness_vars == <<quantity, quantity_pre, quantity_pre2, op, arg, op_prev, arg_prev>>

VARIABLES
    \* the game: components of the entities
    coherence,        \* the Quantity tagged Coherence
    fever,            \* the Quantity tagged Fever
    fervor,           \* the Quantity tagged Fervor
    attackable,       \* per target: the Attackable component, its Lifetime, and
                      \* whether it changed since death_system last ran
    gun,              \* per shooter: the Gun component
    ai,               \* per enemy: whether EnemyShipAi is in a state that fires
    pickup,           \* per enemy: the pickup it carries or has dropped
    bullets,          \* the Bullet entities, in query order
    player_colliding, \* CollidingEntities of the player
    spawner_cooldown, \* EnemySpawner::cooldown
    \* the game: scheduling
    state,            \* State<GameState>
    next_state,       \* NextState<GameState> ("Unchanged" when nothing is pending)
    next_wog_state,   \* NextState<WinOrGameOver>
    pc,               \* the system of the fixed tick that runs next ("idle" between ticks)
    qb_before,        \* the system before which quantity_behaviors_system runs
    qb_done,          \* quantity_behaviors_system has run in this tick
    dt,               \* Time::delta_secs() of the fixed timestep
    tick,             \* number of the current tick
    \* the environment
    inputs_left,      \* how many more events the environment may produce
    next_id,          \* identity given to the next bullet spawned
    \* what the systems did (read by the properties only)
    hit_log,          \* the hits applied by bullet_hit_system, oldest first
    hurt_events,      \* the Hurt events triggered in the current tick
    death_log,        \* the kill side-effect sequences run by death_system
    last_check        \* what the last win/lose check saw and requested

quantity_vars == <<coherence, fever, fervor>>

entity_vars == <<attackable, gun, ai, pickup, bullets, player_colliding, spawner_cooldown>>

schedule_vars == <<state, next_state, next_wog_state, pc, qb_before, qb_done, dt, tick>>

env_vars == <<inputs_left, next_id>>

log_vars == <<hit_log, hurt_events, death_log, last_check>>

game_vars == <<quantity_vars, entity_vars, schedule_vars, env_vars, log_vars>>

vars == <<harness_vars, game_vars>>

\* ------------------------------------------------------------------------
\* f32 arithmetic

\* one unit of the fixed-point representation is 1/SCALE
SCALE == 10 * 1000

\* 1.0
ONE == SCALE

\* largest finite magnitude representable, in multiples of 1.0 (stands for f32::MAX)
FMAX_UNITS == 3

FMAX == FMAX_UNITS * SCALE

PInf == FMAX + 1

NInf == -(FMAX + 1)

NaN == FMAX + 2

F32 == (NInf .. PInf) \cup {NaN}

IsNaN(x) == x = NaN

IsFinite(x) == x >= -FMAX /\ x <= FMAX

\* rounding of an exact result to f32: overflow gives an infinity
Norm(n) == IF n > FMAX THEN PInf ELSE IF n < -FMAX THEN NInf ELSE n

\* f32 `+`
FAdd(a, b) ==
    IF IsNaN(a) \/ IsNaN(b) THEN NaN
    ELSE IF (a = PInf /\ b = NInf) \/ (a = NInf /\ b = PInf) THEN NaN
    ELSE IF a = PInf \/ b = PInf THEN PInf
    ELSE IF a = NInf \/ b = NInf THEN NInf
    ELSE Norm(a + b)

\* f32 unary `-`
FNeg(a) == IF IsNaN(a) THEN NaN ELSE -a

\* f32 `-`
FSub(a, b) == FAdd(a, FNeg(b))

Sign(n) == IF n > 0 THEN 1 ELSE IF n < 0 THEN -1 ELSE 0

Abs(n) == IF n < 0 THEN -n ELSE n

\* exact product of two fixed-point numbers, rounded to the nearest unit
RoundDiv(n, d) == Sign(n) * ((2 * Abs(n) + d) \div (2 * d))

\* f32 `*`
FMul(a, b) ==
    IF IsNaN(a) \/ IsNaN(b) THEN NaN
    ELSE IF ~IsFinite(a) \/ ~IsFinite(b)
         THEN (IF a = 0 \/ b = 0 THEN NaN
               ELSE IF Sign(a) * Sign(b) > 0 THEN PInf ELSE NInf)
    ELSE Norm(RoundDiv(a * b, SCALE))

\* f32::clamp(lo, hi): NaN stays NaN
FClamp(x, lo, hi) ==
    IF IsNaN(x) THEN NaN ELSE IF x < lo THEN lo ELSE IF x > hi THEN hi ELSE x

\* f32::max: a NaN operand is ignored
FMaxOf(a, b) ==
    IF IsNaN(a) THEN b ELSE IF IsNaN(b) THEN a ELSE IF a >= b THEN a ELSE b

\* f32 comparisons: every comparison with NaN is false
FEq(a, b) == ~IsNaN(a) /\ ~IsNaN(b) /\ a = b

FGe(a, b) == ~IsNaN(a) /\ ~IsNaN(b) /\ a >= b

FGt(a, b) == ~IsNaN(a) /\ ~IsNaN(b) /\ a > b

\* ------------------------------------------------------------------------
\* Quantity (quantity.rs)

Coherence_INITIAL == 0

Fever_INITIAL == 5000

Fervor_INITIAL == 0

\* Quantity::new
Quantity_new(value) == [base |-> value, temporary_stack |-> 0]

unclamped_effective_value(q) == FAdd(q.base, q.temporary_stack)

effective_value(q) == FClamp(unclamped_effective_value(q), 0, ONE)

\* a mutant of set_base_only: the clamp is left out
set_base_only_noclamp(q, value) ==
    IF IsNaN(value) THEN q ELSE [q EXCEPT !.base = value]

\* set_base_only in a release build (a NaN is dropped)
set_base_only(q, value) ==
    IF IsNaN(value) THEN q ELSE [q EXCEPT !.base = FClamp(value, 0, ONE)]

\* set_base_only in a debug build panics on exactly these values
set_base_only_panics(value) == IsNaN(value)

\* a mutant of reset_to: the temporary stack is kept
reset_to_keeping(q, value) == set_base_only(q, value)

reset_to(q, value) == [set_base_only(q, value) EXCEPT !.temporary_stack = 0]

\* a mutant: the sum is taken unclamped
adjust_permanent_including_temporary_unclamped(q, delta) ==
    reset_to(q, FAdd(unclamped_effective_value(q), delta))

adjust_permanent_including_temporary(q, delta) ==
    reset_to(q, FAdd(effective_value(q), delta))

\* a mutant: the temporary stack counts
adjust_permanent_clearing_temporary_counting(q, delta) ==
    reset_to(q, FAdd(unclamped_effective_value(q), delta))

adjust_permanent_clearing_temporary(q, delta) ==
    reset_to(q, FAdd(q.base, delta))

adjust_permanent_keeping_temporary(q, delta) ==
    set_base_only(q, FAdd(q.base, delta))

\* a mutant: delta is added to the temporary stack
adjust_permanent_keeping_temporary_adding(q, delta) ==
    LET q1 == set_base_only(q, FAdd(q.base, delta))
    IN  [q1 EXCEPT !.temporary_stack = FAdd(q1.temporary_stack, delta)]

\* a mutant: the temporary stack is left as it is
adjust_permanent_keeping_temporary_relatively(q, delta) ==
    set_base_only(q, FAdd(q.base, delta))

adjust_permanent_keeping_temporary_absolutely(q, delta) ==
    LET q1 == set_base_only(q, FAdd(q.base, delta))
    IN  [q1 EXCEPT !.temporary_stack = FSub(q1.temporary_stack, delta)]

\* a mutant: the previous temporary value is dropped instead of committed
adjust_temporary_and_commit_previous_temporary_dropping(q, delta) ==
    [q EXCEPT !.temporary_stack = delta]

adjust_temporary_and_commit_previous_temporary(q, delta) ==
    [reset_to(q, effective_value(q)) EXCEPT !.temporary_stack = delta]

\* a mutant: the new value replaces the stack instead of adding to it
adjust_temporary_stacking_with_previous_replacing(q, delta) ==
    [q EXCEPT !.temporary_stack = delta]

adjust_temporary_stacking_with_previous(q, delta) ==
    [q EXCEPT !.temporary_stack = FAdd(q.temporary_stack, delta)]

\* ------------------------------------------------------------------------
\* The game: entities and their components

\* bounds of the model
MaxTicks == 3

MaxInputs == 2

MaxBullets == 13

\* Time::delta_secs() of the fixed timestep, 1/64 s, in units of 1/SCALE seconds
DTs == {156}

Enemies == {"E1", "E2"}

\* the entities with an Attackable component: the player ship and the enemies
Targets == {"P"} \cup Enemies

\* an entity with a Collider and no Attackable (a debris particle or a star)
Debris == "K"

\* the name of the pickup entity that enemy e carries as a child
PickupOf(e) == IF e = "E1" THEN "pickup_of_E1" ELSE "pickup_of_E2"

PickupEntities == {PickupOf(e) : e \in Enemies}

\* everything a bullet or the player can overlap
Colliders == Targets \cup {Debris} \cup PickupEntities

\* the order in which queries visit entities
EntityOrder == <<"P", "E1", "E2">>

\* the Team component of a target
TeamOf(t) == IF t = "P" THEN "Player" ELSE "Enemy"

\* a mutant of should_hurt: everybody hurts everybody
should_hurt_anyone(self, other_team) == TRUE

\* Team::should_hurt
should_hurt(self, other_team) == other_team # self

U8_MAX == 255

\* a mutant of saturating_sub: the subtraction wraps around
wrapping_sub(a, b) == (a - b) % (U8_MAX + 1)

\* u8::saturating_sub
saturating_sub(a, b) == IF b > a THEN 0 ELSE a - b

\* an entity that does not exist has no components
NoAttackable ==
    [exists |-> FALSE, health |-> 0, last_hit_by |-> "None", changed |-> FALSE,
     lifetime |-> 0]

NoGun == [exists |-> FALSE, trigger |-> FALSE, cooldown |-> 0]

NoPickup == [where |-> "none", kind |-> "Null", lifetime |-> 0]

\* the player entity spawned by start_new_game (it has no Lifetime)
PlayerAttackable ==
    [exists |-> TRUE, health |-> U8_MAX, last_hit_by |-> "None", changed |-> TRUE,
     lifetime |-> 0]

PlayerGun == [exists |-> TRUE, trigger |-> FALSE, cooldown |-> 0]

\* the components of enemy_bundle
EnemyAttackable ==
    [exists |-> TRUE, health |-> 10, last_hit_by |-> "None", changed |-> TRUE,
     lifetime |-> 20 * SCALE]

EnemyGun(initial_cooldown) ==
    [exists |-> TRUE, trigger |-> FALSE, cooldown |-> initial_cooldown]

\* Gun::base_cooldown of the player (0.25) and of an enemy (4.0)
base_cooldown(s) == IF s = "P" THEN 2500 ELSE 4 * SCALE

\* Gun::pattern
pattern(s) == IF s = "P" THEN "Coherent" ELSE "Single"

\* outcomes of rng.random_range(0.0..=3.0) for the cooldown of a new enemy's gun
InitialGunCooldowns == {0}

\* outcomes of the weighted choice of the pickup each new enemy carries
CarriedPickupChoices ==
    { [e \in Enemies |-> IF e = "E1" THEN "Cohere" ELSE "Cool"],
      [e \in Enemies |-> IF e = "E1" THEN "Null" ELSE "Cohere"] }

\* Pickup::Damage(0.1) of an enemy, Pickup::Cool(0.1), Pickup::Cohere(0.1)
PICKUP_AMOUNT == 1000

\* Lifetime given by after_drop_bundle
DroppedLifetime(kind) == IF kind = "Null" THEN 0 ELSE 20 * SCALE

\* Lifetime of a new bullet
BulletLifetime(team) == IF team = "Player" THEN 2 * SCALE ELSE 10 * SCALE

\* a new Bullet entity
NewBullet(id, team, damage) ==
    [id |-> id, team |-> team, damage |-> damage, lifetime |-> BulletLifetime(team),
     colliding |-> {}]

\* ------------------------------------------------------------------------
\* The fixed tick: the systems of FixedUpdate, in the order of their chain

\* the chain of main.rs
ChainOrder ==
    <<"expire_lifetimes", "apply_movement", "pickup_system", "gun_cooldown",
      "enemy_ship_ai", "fire_gun_system", "bullet_hit_system",
      "player_health_is_fever_system">>

\* death_system is scheduled between these two systems of the chain
DeathSystemAfter == "bullet_hit_system"

\* the systems of one tick in the order they run, followed by the physics
\* step of FixedPostUpdate that recomputes CollidingEntities
RECURSIVE InsertAfter(_, _, _)
InsertAfter(seq, x, y) ==
    IF seq = <<>> THEN <<>>
    ELSE IF Head(seq) = x THEN <<x, y>> \o Tail(seq)
    ELSE <<Head(seq)>> \o InsertAfter(Tail(seq), x, y)

TickOrder ==
    <<"spawn_enemies_system">>
        \o InsertAfter(ChainOrder, DeathSystemAfter, "death_system")
        \o <<"physics">>

IndexOf(name) == CHOOSE i \in 1 .. Len(TickOrder) : TickOrder[i] = name

\* the system after `name`, "idle" after the last one
After(name) ==
    IF IndexOf(name) = Len(TickOrder) THEN "idle" ELSE TickOrder[IndexOf(name) + 1]

\* quantity_behaviors_system is ordered against none of the systems above:
\* it runs once per tick, before one of these (the positions before the
\* systems that do not touch a Quantity give the same results)
QuantityBehaviorsPositions ==
    {"pickup_system", "player_health_is_fever_system", "physics"}

\* system `name` is the next to run
At(name) == pc = name /\ (qb_before = name => qb_done)

\* ------------------------------------------------------------------------
\* The state when a game starts

\* setup_permanent_gameplay and start_new_game
NewGame ==
    /\ coherence = Quantity_new(Coherence_INITIAL)
    /\ fever = Quantity_new(Fever_INITIAL)
    /\ fervor = Quantity_new(Fervor_INITIAL)
    /\ attackable = [t \in Targets |-> IF t = "P" THEN PlayerAttackable ELSE NoAttackable]
    /\ gun = [t \in Targets |-> IF t = "P" THEN PlayerGun ELSE NoGun]
    /\ ai = [e \in Enemies |-> "none"]
    /\ pickup = [e \in Enemies |-> NoPickup]
    /\ bullets = <<>>
    /\ player_colliding = {}
    /\ spawner_cooldown = 0
    /\ next_id = 1

\* the scheduler and the logs before the first tick
Scheduled ==
    /\ state = "Playing"
    /\ next_state = "Unchanged"
    /\ next_wog_state = "Unchanged"
    /\ pc = "idle"
    /\ qb_done = FALSE
    /\ tick = 0
    /\ inputs_left = MaxInputs
    /\ hit_log = <<>>
    /\ hurt_events = <<>>
    /\ death_log = <<>>
    /\ last_check = [ran |-> FALSE, tick |-> 0, fever |-> 0, fervor_base |-> 0, requested |-> "None"]

\* ------------------------------------------------------------------------
\* Between two ticks

\* the run conditions of the tick's systems hold and one more tick starts
BeginTick ==
    /\ UNCHANGED harness_vars
    /\ pc = "idle"
    /\ state = "Playing"
    /\ tick < MaxTicks
    /\ tick' = tick + 1
    /\ pc' = TickOrder[1]
    /\ qb_done' = FALSE
    /\ hurt_events' = <<>>
    /\ UNCHANGED <<quantity_vars, entity_vars, state, next_state, next_wog_state,
                   qb_before, dt, env_vars, hit_log, death_log, last_check>>

\* the StateTransition schedule applies a pending NextState
StateTransition ==
    /\ UNCHANGED harness_vars
    /\ pc = "idle"
    /\ next_state # "Unchanged"
    /\ state' = next_state
    /\ next_state' = "Unchanged"
    /\ UNCHANGED <<quantity_vars, entity_vars, next_wog_state, pc, qb_before, qb_done,
                   dt, tick, env_vars, log_vars>>

\* the fire button can be pressed this many seconds in advance
EARLY_TRIGGER_WINDOW == 500

\* number of bullets of one shot: 1 + 2 * spread_count
BulletsPerShot(s) == IF pattern(s) = "Coherent" THEN 1 + 2 * 3 ELSE 1

\* the observer of the fire button (an event of the environment)
player_input_fire_gun ==
    /\ UNCHANGED harness_vars
    /\ pc = "idle"
    /\ state = "Playing"
    /\ inputs_left > 0
    /\ gun["P"].exists
    /\ Len(bullets) + BulletsPerShot("P") + Cardinality(Enemies) <= MaxBullets
    /\ inputs_left' = inputs_left - 1
    /\ gun' = IF gun["P"].cooldown <= EARLY_TRIGGER_WINDOW
              THEN [gun EXCEPT !["P"].trigger = TRUE]
              ELSE gun
    /\ UNCHANGED <<quantity_vars, attackable, ai, pickup, bullets, player_colliding,
                   spawner_cooldown, schedule_vars, next_id, log_vars>>

\* ------------------------------------------------------------------------
\* The systems of the tick

\* an enemy entity is despawned together with its children
DespawnEnemyIn(st, e) ==
    [st EXCEPT !.att[e] = NoAttackable, !.gun[e] = NoGun, !.ai[e] = "none",
               !.pickup[e] = IF st.pickup[e].where = "carried" THEN NoPickup ELSE @]

\* spawn_enemies_system: counts the spawner's cooldown down, faster with high
\* Fervor, and spawns a pattern of enemies when it is over
spawn_enemies_system ==
    /\ UNCHANGED harness_vars
    /\ At("spawn_enemies_system")
    /\ pc' = After("spawn_enemies_system")
    /\ IF spawner_cooldown > 0
       THEN /\ spawner_cooldown' =
                 LET delta == ((ONE + effective_value(fervor)) * dt) \div SCALE
                 IN  IF spawner_cooldown - delta > 0 THEN spawner_cooldown - delta ELSE 0
            /\ UNCHANGED <<attackable, gun, ai, pickup>>
       ELSE /\ spawner_cooldown' = 5 * SCALE
            /\ \E carried \in CarriedPickupChoices, cd \in InitialGunCooldowns :
                 /\ attackable' = [t \in Targets |->
                        IF t \in Enemies /\ ~attackable[t].exists
                        THEN EnemyAttackable ELSE attackable[t]]
                 /\ gun' = [t \in Targets |->
                        IF t \in Enemies /\ ~attackable[t].exists
                        THEN EnemyGun(cd) ELSE gun[t]]
                 /\ ai' = [e \in Enemies |->
                        IF ~attackable[e].exists THEN "approach" ELSE ai[e]]
                 /\ pickup' = [e \in Enemies |->
                        IF ~attackable[e].exists /\ pickup[e].where = "none"
                        THEN [where |-> "carried", kind |-> carried[e], lifetime |-> 0]
                        ELSE pickup[e]]
    /\ UNCHANGED <<quantity_vars, bullets, player_colliding, state, next_state,
                   next_wog_state, qb_before, qb_done, dt, tick, env_vars, log_vars>>

\* a mutant of expire_lifetimes: nothing is despawned
ExpiredNever(lifetime) == FALSE

\* the Lifetime after one more tick, 0 when the entity is to be despawned
Expired(lifetime) == lifetime - dt <= 0

\* a mutant of expire_lifetimes: an entity whose Lifetime is 0 is kept
ExpiredLate(lifetime) == lifetime - dt < 0

RECURSIVE ExpireBullets(_)
ExpireBullets(bl) ==
    IF bl = <<>> THEN <<>>
    ELSE IF Expired(Head(bl).lifetime)
         THEN ExpireBullets(Tail(bl))
         ELSE <<[Head(bl) EXCEPT !.lifetime = @ - dt]>> \o ExpireBullets(Tail(bl))

\* expire_lifetimes: every entity with a Lifetime (bullets, enemies, dropped
\* pickups) ages by dt and is despawned when nothing is left
expire_lifetimes ==
    /\ UNCHANGED harness_vars
    /\ At("expire_lifetimes")
    /\ pc' = After("expire_lifetimes")
    /\ bullets' = ExpireBullets(bullets)
    /\ LET gone == {e \in Enemies : attackable[e].exists /\ Expired(attackable[e].lifetime)}
       IN  /\ attackable' = [t \in Targets |->
                  IF t \in gone THEN NoAttackable
                  ELSE IF t \in Enemies /\ attackable[t].exists
                       THEN [attackable[t] EXCEPT !.lifetime = @ - dt]
                       ELSE attackable[t]]
           /\ gun' = [t \in Targets |-> IF t \in gone THEN NoGun ELSE gun[t]]
           /\ ai' = [e \in Enemies |-> IF e \in gone THEN "none" ELSE ai[e]]
           /\ pickup' = [e \in Enemies |->
                  IF pickup[e].where = "dropped"
                  THEN (IF Expired(pickup[e].lifetime) THEN NoPickup
                        ELSE [pickup[e] EXCEPT !.lifetime = @ - dt])
                  ELSE IF e \in gone THEN NoPickup ELSE pickup[e]]
    /\ UNCHANGED <<quantity_vars, player_colliding, spawner_cooldown, state, next_state,
                   next_wog_state, qb_before, qb_done, dt, tick, env_vars, log_vars>>

\* apply_movement moves the player ship; positions are not part of the model
apply_movement ==
    /\ UNCHANGED harness_vars
    /\ At("apply_movement")
    /\ pc' = After("apply_movement")
    /\ UNCHANGED <<quantity_vars, entity_vars, state, next_state, next_wog_state,
                   qb_before, qb_done, dt, tick, env_vars, log_vars>>

\* a mutant of the notification: it is sent twice
trigger_Hurt_twice(events, entity) == Append(Append(events, entity), entity)

\* commands.trigger(Hurt(entity))
trigger_Hurt(events, entity) == Append(events, entity)

\* one pass of the loop of pickup_system, for the entity x the player overlaps
PickupCollision(st, x) ==
    IF x \in Enemies /\ st.att[x].exists
    THEN \* Pickup::Damage(0.1)
         [DespawnEnemyIn(st, x) EXCEPT
             !.fever = adjust_permanent_including_temporary(@, PICKUP_AMOUNT),
             !.hurts = trigger_Hurt(@, "P")]
    ELSE IF \E e \in Enemies : x = PickupOf(e) /\ st.pickup[e].where = "dropped"
    THEN LET e == CHOOSE e \in Enemies : x = PickupOf(e)
             kind == st.pickup[e].kind
         IN  [st EXCEPT
                 !.fever = IF kind = "Cool"
                           THEN adjust_permanent_clearing_temporary(@, -PICKUP_AMOUNT)
                           ELSE @,
                 !.coherence = IF kind = "Cohere"
                               THEN adjust_permanent_clearing_temporary(@, PICKUP_AMOUNT)
                               ELSE @,
                 !.pickup[e] = NoPickup]
    ELSE st  \* not a pickup

RECURSIVE PickupLoop(_, _)
PickupLoop(st, S) ==
    IF S = {} THEN st
    ELSE LET x == CHOOSE x \in S : TRUE
         IN  PickupLoop(PickupCollision(st, x), S \ {x})

\* pickup_system: skipped when there is no player entity
pickup_system ==
    /\ UNCHANGED harness_vars
    /\ At("pickup_system")
    /\ pc' = After("pickup_system")
    /\ LET st0 == [att |-> attackable, gun |-> gun, ai |-> ai, pickup |-> pickup,
                   fever |-> fever, coherence |-> coherence, hurts |-> hurt_events]
           st == IF attackable["P"].exists THEN PickupLoop(st0, player_colliding) ELSE st0
       IN  /\ attackable' = st.att
           /\ gun' = st.gun
           /\ ai' = st.ai
           /\ pickup' = st.pickup
           /\ fever' = st.fever
           /\ coherence' = st.coherence
           /\ hurt_events' = st.hurts
    /\ UNCHANGED <<fervor, bullets, player_colliding, spawner_cooldown, state, next_state,
                   next_wog_state, qb_before, qb_done, dt, tick, env_vars, hit_log,
                   death_log, last_check>>

\* a mutant of gun_cooldown: every gun is ready in the next tick
gun_cooldown_instant ==
    /\ UNCHANGED harness_vars
    /\ At("gun_cooldown")
    /\ pc' = After("gun_cooldown")
    /\ gun' = [s \in Targets |->
           IF gun[s].exists THEN [gun[s] EXCEPT !.cooldown = 0] ELSE gun[s]]
    /\ UNCHANGED <<quantity_vars, attackable, ai, pickup, bullets, player_colliding,
                   spawner_cooldown, state, next_state, next_wog_state, qb_before,
                   qb_done, dt, tick, env_vars, log_vars>>

\* gun_cooldown
gun_cooldown ==
    /\ UNCHANGED harness_vars
    /\ At("gun_cooldown")
    /\ pc' = After("gun_cooldown")
    /\ gun' = [s \in Targets |->
           IF gun[s].exists
           THEN [gun[s] EXCEPT !.cooldown = IF @ - dt > 0 THEN @ - dt ELSE 0]
           ELSE gun[s]]
    /\ UNCHANGED <<quantity_vars, attackable, ai, pickup, bullets, player_colliding,
                   spawner_cooldown, state, next_state, next_wog_state, qb_before,
                   qb_done, dt, tick, env_vars, log_vars>>

\* enemy_ship_ai: a ship in WaitAtStation or Dive ("attack") pulls the trigger
\* every tick; when a ship gets there depends on its timers and its position,
\* which the environment decides
enemy_ship_ai ==
    /\ UNCHANGED harness_vars
    /\ At("enemy_ship_ai")
    /\ pc' = After("enemy_ship_ai")
    /\ \E arriving \in SUBSET {e \in Enemies : ai[e] = "approach"} :
         /\ Cardinality(arriving) <= inputs_left
         /\ inputs_left' = inputs_left - Cardinality(arriving)
         /\ ai' = [e \in Enemies |-> IF e \in arriving THEN "attack" ELSE ai[e]]
    /\ gun' = [s \in Targets |->
           IF s \in Enemies /\ ai[s] = "attack"
           THEN [gun[s] EXCEPT !.trigger = TRUE]
           ELSE gun[s]]
    /\ UNCHANGED <<quantity_vars, attackable, pickup, bullets, player_colliding,
                   spawner_cooldown, state, next_state, next_wog_state, qb_before,
                   qb_done, dt, tick, next_id, log_vars>>

\* Bullet::damage of the bullets of a gun, given the effective Coherence
BulletDamage(s, coh) ==
    IF pattern(s) = "Single" THEN 1 ELSE 1 + ((coh * 29) \div (10 * SCALE))

\* one pass of the loop of fire_gun_system, for the gun of shooter s
FireGun(st, s) ==
    IF ~st.gun[s].exists \/ ~st.gun[s].trigger \/ st.gun[s].cooldown # 0
    THEN st  \* not commanded to fire or not ready to fire
    ELSE LET coh == IF pattern(s) = "Coherent" THEN effective_value(st.coherence) ELSE 0
             n == BulletsPerShot(s)
             new == [k \in 1 .. n |->
                        NewBullet(st.next_id + k - 1, TeamOf(s), BulletDamage(s, coh))]
         IN  [st EXCEPT
                 !.gun[s].trigger = FALSE,
                 !.gun[s].cooldown = base_cooldown(s),
                 !.spawned = @ \o new,
                 !.next_id = @ + n,
                 !.fever = IF s = "P"
                           THEN adjust_temporary_and_commit_previous_temporary(
                                    @, FMul(1000, coh))
                           ELSE @,
                 !.coherence = IF s = "P"
                               THEN adjust_temporary_stacking_with_previous(@, -1000)
                               ELSE @]

RECURSIVE FireLoop(_, _)
FireLoop(st, order) ==
    IF order = <<>> THEN st
    ELSE FireLoop(FireGun(st, Head(order)), Tail(order))

\* fire_gun_system; the bullets are spawned when the system's commands are
\* applied, at its end
fire_gun_system ==
    /\ UNCHANGED harness_vars
    /\ At("fire_gun_system")
    /\ pc' = After("fire_gun_system")
    /\ LET st == FireLoop([gun |-> gun, fever |-> fever, coherence |-> coherence,
                           spawned |-> <<>>, next_id |-> next_id], EntityOrder)
       IN  /\ gun' = st.gun
           /\ fever' = st.fever
           /\ coherence' = st.coherence
           /\ bullets' = bullets \o st.spawned
           /\ next_id' = st.next_id
    /\ UNCHANGED <<fervor, attackable, ai, pickup, player_colliding, spawner_cooldown,
                   state, next_state, next_wog_state, qb_before, qb_done, dt, tick,
                   inputs_left, log_vars>>

\* a mutant of the `killed` set: it is never consulted
killed_contains_never(killed, entity) == FALSE

\* killed.contains(&colliding_entity)
killed_contains(killed, entity) == entity \in killed

\* a mutant of the expiry of a bullet that hit: its Lifetime is left alone
bullet_dies_never(lifetime) == lifetime

\* a mutant of the expiry of a bullet that hit: it lives one more second
bullet_dies_in_a_second(lifetime) == SCALE

\* bullet_lifetime.0 = 0.0: cause bullet to die on the next frame
bullet_dies_next_frame(lifetime) == 0

\* a mutant of the attribution: only a lethal hit is attributed
last_hit_by_when_killed(old, bullet_team, is_killed) ==
    IF is_killed THEN bullet_team ELSE old

\* target_attackable.last_hit_by = Some(bullet_team)
last_hit_by_after(old, bullet_team, is_killed) == bullet_team

\* a mutant of the cancellation: the pending loss is committed to base
cancel_coherence_loss_committing(coherence_q) ==
    adjust_permanent_including_temporary(coherence_q, 0)

\* Player successfully hitting *something* cancels coherence loss
cancel_coherence_loss(coherence_q) ==
    adjust_permanent_clearing_temporary(coherence_q, 0)

\* one pass of the 'colliding loop of bullet_hit_system: bullet number i and
\* the entity c it overlaps
HitCollision(st, i, c) ==
    LET b == st.bl[i] IN
    IF c \notin Targets \/ ~st.att[c].exists
    THEN st  \* collided but is not attackable
    ELSE IF ~should_hurt(b.team, TeamOf(c)) THEN st
    ELSE IF killed_contains(st.killed, c) THEN st
    ELSE LET new_health == saturating_sub(st.att[c].health, b.damage)
             is_killed == new_health = 0
         IN  [st EXCEPT
                 !.att[c].last_hit_by = last_hit_by_after(@, b.team, is_killed),
                 !.att[c].health = new_health,
                 !.att[c].changed = TRUE,
                 !.hurts = trigger_Hurt(@, c),
                 !.killed = IF is_killed THEN @ \cup {c} ELSE @,
                 !.bl[i].lifetime = bullet_dies_next_frame(@),
                 !.coh = IF b.team = "Player" THEN cancel_coherence_loss(@) ELSE @,
                 !.log = Append(@, [tick |-> tick, bullet |-> b.id, team |-> b.team,
                                    target |-> c, before |-> st.att[c].health,
                                    damage |-> b.damage, after |-> new_health])]

RECURSIVE HitBullet(_, _, _)

\* a mutant of the 'colliding loop: only the first collision is evaluated
HitBullet_first_only(st, i, S) ==
    IF S = {} THEN st
    ELSE HitCollision(st, i, CHOOSE c \in S : TRUE)

\* the 'colliding loop of bullet_hit_system, for bullet number i
HitBullet(st, i, S) ==
    IF S = {} THEN st
    ELSE LET c == CHOOSE c \in S : TRUE
         IN  HitBullet(HitCollision(st, i, c), i, S \ {c})

RECURSIVE HitLoop(_, _)
HitLoop(st, i) ==
    IF i > Len(st.bl) THEN st
    ELSE HitLoop(HitBullet(st, i, st.bl[i].colliding), i + 1)

\* bullet_hit_system
bullet_hit_system ==
    /\ UNCHANGED harness_vars
    /\ At("bullet_hit_system")
    /\ pc' = After("bullet_hit_system")
    /\ LET st == HitLoop([bl |-> bullets, att |-> attackable, coh |-> coherence,
                          killed |-> {}, hurts |-> hurt_events, log |-> hit_log], 1)
       IN  /\ bullets' = st.bl
           /\ attackable' = st.att
           /\ coherence' = st.coh
           /\ hurt_events' = st.hurts
           /\ hit_log' = st.log
    /\ UNCHANGED <<fever, fervor, gun, ai, pickup, player_colliding, spawner_cooldown,
                   state, next_state, next_wog_state, qb_before, qb_done, dt, tick,
                   env_vars, death_log, last_check>>

\* a mutant of fervor_is_active: Fervor is always active
fervor_is_active_always(fever_q, coherence_q) == TRUE

\* fervor_is_active
fervor_is_active(fever_q, coherence_q) ==
    FGt(effective_value(coherence_q), effective_value(fever_q))

\* a mutant of the condition of death_system: a target still alive is swept too
is_dying_below_full(health) == health < 10

\* the condition of death_system, negated by its `continue`
is_dying(health) == ~(health > 0)

\* one pass of the loop of death_system, for the target t
DeathOf(st, t) ==
    IF ~st.att[t].exists \/ ~st.att[t].changed THEN st
    ELSE IF ~is_dying(st.att[t].health) THEN st  \* not dying
    ELSE LET drops == t \in Enemies /\ st.pickup[t].where = "carried"
             credited == st.att[t].last_hit_by = "Player"
                         /\ fervor_is_active(fever, coherence)
             added_fervor ==
                 FAdd(301, FMul(300, FMaxOf(st.fervor.temporary_stack, 4000)))
         IN  [st EXCEPT
                 !.pickup = IF drops
                            THEN [@ EXCEPT ![t] =
                                   [where |-> "dropped", kind |-> st.pickup[t].kind,
                                    lifetime |-> DroppedLifetime(st.pickup[t].kind)]]
                            ELSE @,
                 !.fervor = IF credited
                            THEN adjust_temporary_stacking_with_previous(@, added_fervor)
                            ELSE @,
                 !.att[t] = NoAttackable,
                 !.gun[t] = NoGun,
                 !.ai = IF t \in Enemies THEN [@ EXCEPT ![t] = "none"] ELSE @,
                 !.log = Append(@, [tick |-> tick, entity |-> t, dropped |-> drops,
                                    debris |-> t \in Enemies, credited |-> credited])]

RECURSIVE DeathLoop(_, _)
DeathLoop(st, order) ==
    IF order = <<>> THEN st
    ELSE DeathLoop(DeathOf(st, Head(order)), Tail(order))

\* death_system; when it has run no Attackable counts as changed any more
death_system ==
    /\ UNCHANGED harness_vars
    /\ At("death_system")
    /\ pc' = After("death_system")
    /\ LET st == DeathLoop([att |-> attackable, gun |-> gun, ai |-> ai,
                            pickup |-> pickup, fervor |-> fervor, log |-> death_log],
                           EntityOrder)
       IN  /\ attackable' = [t \in Targets |-> [st.att[t] EXCEPT !.changed = FALSE]]
           /\ gun' = st.gun
           /\ ai' = st.ai
           /\ pickup' = st.pickup
           /\ fervor' = st.fervor
           /\ death_log' = st.log
    /\ UNCHANGED <<coherence, fever, bullets, player_colliding, spawner_cooldown,
                   state, next_state, next_wog_state, qb_before, qb_done, dt, tick,
                   env_vars, hit_log, hurt_events, last_check>>

\* a mutant of the conversion: the health is always restored
health_after_conversion_restoring(fever_q) == U8_MAX

\* the health player_health_is_fever_system leaves a damaged player with,
\* given Fever after its increase: 0 causes death
health_after_conversion(fever_q) ==
    IF FEq(effective_value(fever_q), ONE) THEN 0 ELSE U8_MAX

\* player_health_is_fever_system
player_health_is_fever_system ==
    /\ UNCHANGED harness_vars
    /\ At("player_health_is_fever_system")
    /\ pc' = After("player_health_is_fever_system")
    /\ LET damage == U8_MAX - attackable["P"].health IN
       IF attackable["P"].exists /\ damage > 0
       THEN LET fever1 == adjust_permanent_including_temporary(fever, Norm(damage * 1000))
            IN  /\ fever' = fever1
                /\ attackable' = [attackable EXCEPT
                       !["P"].health = health_after_conversion(fever1),
                       !["P"].changed = TRUE]
                /\ fervor' = reset_to(fervor, 0)
       ELSE UNCHANGED <<fever, attackable, fervor>>
    /\ UNCHANGED <<coherence, gun, ai, pickup, bullets, player_colliding,
                   spawner_cooldown, state, next_state, next_wog_state, qb_before,
                   qb_done, dt, tick, env_vars, log_vars>>

\* a mutant of powf: the powers for a timestep of log2(3) seconds, above 1
powf_long_step(x, d) == IF x = 2 * SCALE THEN 3 * SCALE ELSE 1484

\* 2.0f32.powf(d) and 0.3f32.powf(d) for the timesteps of DTs
powf(x, d) ==
    IF d = 156 THEN (IF x = 2 * SCALE THEN 10109 ELSE 9814)
    ELSE (IF x = 2 * SCALE THEN 2 * SCALE ELSE 3000)

\* a mutant of the win and lose conditions: the win is tested first
win_lose_conditions_win_first(fever_q, fervor_q) ==
    IF FGe(fervor_q.base, 9990) THEN "Win"
    ELSE IF FEq(effective_value(fever_q), ONE) THEN "GameOver"
    ELSE "None"

\* the win and lose conditions of quantity_behaviors_system
win_lose_conditions(fever_q, fervor_q) ==
    IF FEq(effective_value(fever_q), ONE) THEN "GameOver"
    ELSE IF FGe(fervor_q.base, 9990) THEN "Win"
    ELSE "None"

\* a mutant of quantity_behaviors_system: the decay, then the win/lose check
quantity_behaviors_system_decay_first ==
    /\ UNCHANGED harness_vars
    /\ pc = qb_before
    /\ ~qb_done
    /\ qb_done' = TRUE
    /\ LET coherence_change ==
               FMul(coherence.temporary_stack, FSub(powf(2 * SCALE, dt), ONE))
       IN  coherence' = adjust_permanent_keeping_temporary_absolutely(
                            coherence, coherence_change)
    /\ fever' = [fever EXCEPT !.temporary_stack = FMul(@, powf(3000, dt))]
    /\ LET change == FMul(FMul(fervor.temporary_stack, 3000), dt)
           fervor1 == adjust_permanent_keeping_temporary_absolutely(fervor, change)
       IN  fervor' = [fervor1 EXCEPT !.temporary_stack =
               FMaxOf(FMaxOf(FSub(@, FMul(600, dt)), -1000), FNeg(fervor1.base))]
    /\ LET requested == win_lose_conditions(fever', fervor') IN
       /\ last_check' = [ran |-> TRUE, tick |-> tick,
                         fever |-> effective_value(fever'),
                         fervor_base |-> fervor'.base, requested |-> requested]
       /\ next_state' = IF requested # "None" THEN "WinOrGameOver" ELSE next_state
       /\ next_wog_state' = IF requested # "None" THEN requested ELSE next_wog_state
    /\ UNCHANGED <<entity_vars, state, pc, qb_before, dt, tick, env_vars, hit_log,
                   hurt_events, death_log>>

\* quantity_behaviors_system: the win/lose check, then the decay of the three
\* quantities.  It is ordered against none of the systems of the chain and
\* runs before the system qb_before.
quantity_behaviors_system ==
    /\ UNCHANGED harness_vars
    /\ pc = qb_before
    /\ ~qb_done
    /\ qb_done' = TRUE
    /\ LET requested == win_lose_conditions(fever, fervor) IN
       /\ last_check' = [ran |-> TRUE, tick |-> tick,
                         fever |-> effective_value(fever),
                         fervor_base |-> fervor.base, requested |-> requested]
       /\ next_state' = IF requested # "None" THEN "WinOrGameOver" ELSE next_state
       /\ next_wog_state' = IF requested # "None" THEN requested ELSE next_wog_state
    /\ LET coherence_change ==
               FMul(coherence.temporary_stack, FSub(powf(2 * SCALE, dt), ONE))
       IN  coherence' = adjust_permanent_keeping_temporary_absolutely(
                            coherence, coherence_change)
    /\ fever' = [fever EXCEPT !.temporary_stack = FMul(@, powf(3000, dt))]
    /\ LET change == FMul(FMul(fervor.temporary_stack, 3000), dt)
           fervor1 == adjust_permanent_keeping_temporary_absolutely(fervor, change)
       IN  fervor' = [fervor1 EXCEPT !.temporary_stack =
               FMaxOf(FMaxOf(FSub(@, FMul(600, dt)), -1000), FNeg(fervor1.base))]
    /\ UNCHANGED <<entity_vars, state, pc, qb_before, dt, tick, env_vars, hit_log,
                   hurt_events, death_log>>

\* ------------------------------------------------------------------------
\* The physics step: which colliders overlap is decided by positions, which
\* are the environment's choice

\* the overlaps of bullets tried: the first n bullets in flight of a team
\* overlap the entities of S, a bullet that hit in this tick (its Lifetime is
\* 0) still overlaps what is left of what it overlapped, every other bullet
\* overlaps nothing
Pictures ==
    { [team |-> "Player", n |-> 1, S |-> {"E1"}],
      [team |-> "Player", n |-> 2, S |-> {"E1", "E2"}],
      [team |-> "Player", n |-> 1, S |-> {"P", Debris}],
      [team |-> "Enemy", n |-> 1, S |-> {"P"}],
      [team |-> "Enemy", n |-> 1, S |-> {"E1"}],
      [team |-> "Enemy", n |-> 0, S |-> {}] }

\* the colliders that exist
ExistingColliders ==
    {t \in Targets : attackable[t].exists} \cup {Debris}
        \cup {PickupOf(e) : e \in {x \in Enemies : pickup[x].where = "dropped"}}

\* what the player's collider can overlap: enemies and dropped pickups
Touchable == ExistingColliders \ {"P", Debris}

\* bullet number i is one of the first n bullets of team tm still in flight
InGroup(i, tm, n) ==
    /\ bullets[i].team = tm
    /\ bullets[i].lifetime > 0
    /\ Cardinality({j \in 1 .. i : bullets[j].team = tm /\ bullets[j].lifetime > 0}) <= n

\* the physics step of FixedPostUpdate recomputes every CollidingEntities
physics ==
    /\ UNCHANGED harness_vars
    /\ At("physics")
    /\ pc' = After("physics")
    /\ \E pic \in Pictures, touch \in {{}} \cup {{x} : x \in Touchable} :
         LET cost == (IF pic.n > 0 THEN 1 ELSE 0) + (IF touch # {} THEN 1 ELSE 0) IN
         /\ cost <= inputs_left
         /\ pic.S \subseteq ExistingColliders
         /\ pic.n <= Cardinality({j \in 1 .. Len(bullets) :
                        bullets[j].team = pic.team /\ bullets[j].lifetime > 0})
         /\ inputs_left' = inputs_left - cost
         /\ bullets' = [i \in 1 .. Len(bullets) |->
                           [bullets[i] EXCEPT !.colliding =
                               IF bullets[i].lifetime = 0
                               THEN bullets[i].colliding \cap ExistingColliders
                               ELSE IF InGroup(i, pic.team, pic.n) THEN pic.S ELSE {}]]
         /\ player_colliding' = touch
    /\ UNCHANGED <<quantity_vars, attackable, gun, ai, pickup, spawner_cooldown,
                   state, next_state, next_wog_state, qb_before, qb_done, dt, tick,
                   next_id, log_vars>>

\* ------------------------------------------------------------------------
\* The game as a whole

\* the games in progress tried: the Fever, the health of the first enemy (it
\* was hit before when it is not 10) and what the first bullet overlaps
MidGameVariants ==
    { [fever |-> Quantity_new(Fever_INITIAL), health |-> 10, colliding |-> {"E1"}],
      [fever |-> [base |-> 9000, temporary_stack |-> 0], health |-> 10,
       colliding |-> {"E1"}],
      [fever |-> Quantity_new(Fever_INITIAL), health |-> 3, colliding |-> {"E1", "E2"}] }

\* a game in progress: two enemies on the screen, one of them nearly dead,
\* the rest of a volley of the player in flight, Fervor close to the win
MidGame ==
    \E v \in MidGameVariants :
    /\ coherence = [base |-> 8000, temporary_stack |-> -1000]
    /\ fever = v.fever
    /\ fervor = [base |-> 9988, temporary_stack |-> 3000]
    /\ attackable = [t \in Targets |->
           IF t = "P" THEN [PlayerAttackable EXCEPT !.changed = FALSE]
           ELSE IF t = "E1"
                THEN [EnemyAttackable EXCEPT
                         !.changed = FALSE, !.lifetime = 15 * SCALE,
                         !.health = v.health,
                         !.last_hit_by = IF v.health < 10 THEN "Player" ELSE "None"]
                ELSE [EnemyAttackable EXCEPT !.changed = FALSE, !.lifetime = 15 * SCALE,
                                             !.health = 1, !.last_hit_by = "Player"]]
    /\ gun = [t \in Targets |->
           IF t = "P" THEN PlayerGun
           ELSE IF t = "E1" THEN EnemyGun(0) ELSE EnemyGun(3 * SCALE)]
    /\ ai = [e \in Enemies |-> IF e = "E1" THEN "attack" ELSE "approach"]
    /\ pickup = [e \in Enemies |->
           [where |-> "carried", kind |-> IF e = "E1" THEN "Cohere" ELSE "Null",
            lifetime |-> 0]]
    /\ bullets = [k \in 1 .. 4 |->
           [NewBullet(k, "Player", BulletDamage("P", 8000)) EXCEPT
               !.lifetime = 15000,
               !.colliding = IF k = 1 THEN v.colliding ELSE {}]]
    /\ player_colliding = {}
    /\ spawner_cooldown = 3 * SCALE
    /\ next_id = 5

\* the single Quantity of the harness is not part of the game
HarnessIdle ==
    /\ quantity = Quantity_new(Coherence_INITIAL)
    /\ quantity_pre = quantity
    /\ quantity_pre2 = quantity
    /\ op = "new"
    /\ arg = 0
    /\ op_prev = "other"
    /\ arg_prev = 0

Init ==
    /\ HarnessIdle
    /\ Scheduled
    /\ dt \in DTs
    /\ qb_before \in QuantityBehaviorsPositions
    /\ (NewGame \/ MidGame)

Next ==
    \/ BeginTick
    \/ StateTransition
    \/ player_input_fire_gun
    \/ spawn_enemies_system
    \/ expire_lifetimes
    \/ apply_movement
    \/ pickup_system
    \/ gun_cooldown
    \/ enemy_ship_ai
    \/ fire_gun_system
    \/ bullet_hit_system
    \/ death_system
    \/ player_health_is_fever_system
    \/ quantity_behaviors_system
    \/ physics

Spec == Init /\ [][Next]_vars

\* ------------------------------------------------------------------------
\* The Quantity operations applied in any order to one Quantity

\* the finite arguments tried, in units of 1/SCALE
Deltas == {-FMAX, -6000, 0, 6000, FMAX}

QuantityOps == {
    "adjust_permanent_including_temporary",
    "adjust_permanent_clearing_temporary",
    "adjust_permanent_keeping_temporary",
    "adjust_permanent_keeping_temporary_absolutely",
    "adjust_temporary_and_commit_previous_temporary",
    "adjust_temporary_stacking_with_previous",
    "reset_to" }

InitQuantity ==
    /\ \E v \in {Coherence_INITIAL, Fever_INITIAL, Fervor_INITIAL} : quantity = Quantity_new(v)
    /\ quantity_pre = quantity
    /\ quantity_pre2 = quantity
    /\ op = "new"
    /\ arg = 0
    /\ op_prev = "other"
    /\ arg_prev = 0
    /\ NewGame
    /\ Scheduled
    /\ dt \in DTs
    /\ qb_before = "physics"

\* the operations whose behaviour over two calls in a row is specified
TwoCallOps == {
    "adjust_temporary_and_commit_previous_temporary",
    "adjust_temporary_stacking_with_previous" }

\* bookkeeping common to every call: remember the call and the state before
\* it, and the call before it when that was one of TwoCallOps
Called(name, d) ==
    /\ quantity_pre' = quantity
    /\ op' = name
    /\ arg' = d
    /\ IF op \in TwoCallOps
       THEN /\ op_prev' = op
            /\ arg_prev' = arg
            /\ quantity_pre2' = quantity_pre
       ELSE /\ op_prev' = "other"
            /\ arg_prev' = 0
            /\ quantity_pre2' = quantity
    /\ UNCHANGED game_vars

CallIncludingTemporary ==
    \E d \in Deltas :
        /\ quantity' = adjust_permanent_including_temporary(quantity, d)
        /\ Called("adjust_permanent_including_temporary", d)

CallClearingTemporary ==
    \E d \in Deltas :
        /\ quantity' = adjust_permanent_clearing_temporary(quantity, d)
        /\ Called("adjust_permanent_clearing_temporary", d)

CallKeepingTemporary ==
    \E d \in Deltas :
        /\ quantity' = adjust_permanent_keeping_temporary(quantity, d)
        /\ Called("adjust_permanent_keeping_temporary", d)

CallKeepingTemporaryAbsolutely ==
    \E d \in Deltas :
        /\ quantity' = adjust_permanent_keeping_temporary_absolutely(quantity, d)
        /\ Called("adjust_permanent_keeping_temporary_absolutely", d)

CallCommitPreviousTemporary ==
    \E d \in Deltas :
        /\ quantity' = adjust_temporary_and_commit_previous_temporary(quantity, d)
        /\ Called("adjust_temporary_and_commit_previous_temporary", d)

CallStackingWithPrevious ==
    \E d \in Deltas :
        /\ quantity' = adjust_temporary_stacking_with_previous(quantity, d)
        /\ Called("adjust_temporary_stacking_with_previous", d)

CallResetTo ==
    \E d \in Deltas :
        /\ quantity' = reset_to(quantity, d)
        /\ Called("reset_to", d)

NextQuantity ==
    \/ CallIncludingTemporary
    \/ CallClearingTemporary
    \/ CallKeepingTemporary
    \/ CallKeepingTemporaryAbsolutely
    \/ CallCommitPreviousTemporary
    \/ CallStackingWithPrevious
    \/ CallResetTo

SpecQuantity == InitQuantity /\ [][NextQuantity]_vars

\* ------------------------------------------------------------------------
\* The operations that write base, called in a release build with an
\* argument that is NaN (or 0) on one Quantity

NaNArgs == {NaN, 0}

\* the operations that go through set_base_only
PermanentOps == {
    "adjust_permanent_including_temporary",
    "adjust_permanent_clearing_temporary",
    "adjust_permanent_keeping_temporary",
    "adjust_permanent_keeping_temporary_absolutely",
    "reset_to" }

InitNaN ==
    /\ quantity \in [base : {0, 4000, 5000, 6000, ONE},
                     temporary_stack : {-6000, -1000, 0, 3000, PInf}]
    /\ quantity_pre = quantity
    /\ quantity_pre2 = quantity
    /\ op = "new"
    /\ arg = 0
    /\ op_prev = "other"
    /\ arg_prev = 0
    /\ NewGame
    /\ Scheduled
    /\ dt \in DTs
    /\ qb_before = "physics"

NaNIncludingTemporary ==
    \E d \in NaNArgs :
        /\ quantity' = adjust_permanent_including_temporary(quantity, d)
        /\ Called("adjust_permanent_including_temporary", d)

NaNClearingTemporary ==
    \E d \in NaNArgs :
        /\ quantity' = adjust_permanent_clearing_temporary(quantity, d)
        /\ Called("adjust_permanent_clearing_temporary", d)

NaNKeepingTemporary ==
    \E d \in NaNArgs :
        /\ quantity' = adjust_permanent_keeping_temporary(quantity, d)
        /\ Called("adjust_permanent_keeping_temporary", d)

NaNKeepingTemporaryAbsolutely ==
    \E d \in NaNArgs :
        /\ quantity' = adjust_permanent_keeping_temporary_absolutely(quantity, d)
        /\ Called("adjust_permanent_keeping_temporary_absolutely", d)

NaNResetTo ==
    \E d \in NaNArgs :
        /\ quantity' = reset_to(quantity, d)
        /\ Called("reset_to", d)

NextNaN ==
    \/ NaNIncludingTemporary
    \/ NaNClearingTemporary
    \/ NaNKeepingTemporary
    \/ NaNKeepingTemporaryAbsolutely
    \/ NaNResetTo

SpecNaN == InitNaN /\ [][NextNaN]_vars

\* the value an operation of PermanentOps computes for base
NewBaseValue(name, q, d) ==
    IF name = "adjust_permanent_including_temporary" THEN FAdd(effective_value(q), d)
    ELSE IF name = "reset_to" THEN d
    ELSE FAdd(q.base, d)

\* ------------------------------------------------------------------------
\* Properties of the Quantity operations (checked under SpecQuantity)

InUnitInterval(x) == IsFinite(x) /\ x >= 0 /\ x <= ONE

\* C1: after any sequence of adjust_* and reset_to calls with finite
\* arguments, starting from an initial value of the game, base is in [0,1]
\* and effective_value() is in [0,1].
C1_ClampInvariant ==
    /\ InUnitInterval(quantity.base)
    /\ InUnitInterval(effective_value(quantity))

\* C1 witness: a call has left base + temporary_stack outside [0,1] (here
\* above 1, the stack having overflowed to infinity), so that the clamp of
\* effective_value() is what keeps the value in range.
C1_Witness ==
    /\ op # "new"
    /\ quantity.temporary_stack = PInf
    /\ effective_value(quantity) = ONE

\* C2: adjust_temporary_and_commit_previous_temporary(d1) directly followed
\* by adjust_temporary_and_commit_previous_temporary(d2) leaves
\* base = clamp(base_before + d1, 0, 1), base_before being the base right
\* after the first call, and temporary_stack = d2.
C2_CommitSemantics ==
    (/\ op = "adjust_temporary_and_commit_previous_temporary"
     /\ op_prev = "adjust_temporary_and_commit_previous_temporary")
    => /\ quantity.base = FClamp(FAdd(quantity_pre.base, arg_prev), 0, ONE)
       /\ quantity.temporary_stack = arg

\* C2 witness: two commits in a row where the first call's temporary value
\* really moved the base.
C2_Witness ==
    /\ op = "adjust_temporary_and_commit_previous_temporary"
    /\ op_prev = "adjust_temporary_and_commit_previous_temporary"
    /\ arg_prev = 6000
    /\ quantity_pre.base = 0
    /\ quantity.base = 6000
    /\ quantity.temporary_stack = arg

\* C3: adjust_temporary_stacking_with_previous(d1) then (d2) leaves base
\* unchanged and adds d1 and then d2 to the stack without clamping it; from
\* an empty stack the result is exactly d1 + d2.
C3_StackingSemantics ==
    (/\ op = "adjust_temporary_stacking_with_previous"
     /\ op_prev = "adjust_temporary_stacking_with_previous")
    => /\ quantity.base = quantity_pre2.base
       /\ quantity.temporary_stack =
              FAdd(FAdd(quantity_pre2.temporary_stack, arg_prev), arg)
       /\ (quantity_pre2.temporary_stack = 0
              => quantity.temporary_stack = FAdd(arg_prev, arg))

\* C3 witness: two stacking calls from an empty stack whose sum lies outside
\* [0,1] and is kept as it is.
C3_Witness ==
    /\ op = "adjust_temporary_stacking_with_previous"
    /\ op_prev = "adjust_temporary_stacking_with_previous"
    /\ quantity_pre2.temporary_stack = 0
    /\ arg_prev = 6000
    /\ arg = 6000
    /\ quantity.temporary_stack = 12000

\* C8 as stated: adjust_permanent_including_temporary(delta) leaves
\* base = clamp(base + temporary_stack + delta, 0, 1) and an empty stack.
C8_AsStated ==
    (op = "adjust_permanent_including_temporary")
    => /\ quantity.base =
              FClamp(FAdd(FAdd(quantity_pre.base, quantity_pre.temporary_stack), arg), 0, ONE)
       /\ quantity.temporary_stack = 0

\* C8 amended: adjust_permanent_including_temporary(delta) leaves
\* base = clamp(effective_value() + delta, 0, 1), where effective_value() =
\* clamp(base + temporary_stack, 0, 1) is taken before the call, and an empty
\* stack; base 0.5, stack 0, delta 0.6 gives effective value 1.0.
C8_IncludingTemporary ==
    (op = "adjust_permanent_including_temporary")
    => /\ quantity.base = FClamp(FAdd(effective_value(quantity_pre), arg), 0, ONE)
       /\ quantity.temporary_stack = 0
       /\ (quantity_pre = [base |-> 5000, temporary_stack |-> 0] /\ arg = 6000
              => effective_value(quantity) = ONE)

\* C8 witness: the call on a Quantity whose base + temporary_stack exceeds 1,
\* with a negative delta: the excess above 1 is not carried into the sum.
C8_Witness ==
    /\ op = "adjust_permanent_including_temporary"
    /\ unclamped_effective_value(quantity_pre) = 12000
    /\ arg = -6000
    /\ quantity.base = 4000
    /\ quantity.temporary_stack = 0

\* the scenario of C8: base 0.5, empty stack, delta 0.6
C8_ScenarioReached ==
    /\ op = "adjust_permanent_including_temporary"
    /\ quantity_pre = [base |-> 5000, temporary_stack |-> 0]
    /\ arg = 6000

\* ------------------------------------------------------------------------
\* Hit resolution on its own: one bullet of any damage overlaps one enemy of
\* any health when bullet_hit_system runs

InitHit ==
    /\ HarnessIdle
    /\ dt \in DTs
    /\ qb_before = "physics"
    /\ coherence = Quantity_new(Coherence_INITIAL)
    /\ fever = Quantity_new(Fever_INITIAL)
    /\ fervor = Quantity_new(Fervor_INITIAL)
    /\ \E h \in 0 .. U8_MAX, d \in 0 .. U8_MAX :
         /\ attackable = [t \in Targets |->
                IF t = "P" THEN PlayerAttackable
                ELSE IF t = "E1" THEN [EnemyAttackable EXCEPT !.health = h]
                ELSE NoAttackable]
         /\ bullets = <<[NewBullet(1, "Player", d) EXCEPT !.colliding = {"E1"}]>>
    /\ gun = [t \in Targets |->
           IF t = "P" THEN PlayerGun ELSE IF t = "E1" THEN EnemyGun(0) ELSE NoGun]
    /\ ai = [e \in Enemies |-> IF e = "E1" THEN "approach" ELSE "none"]
    /\ pickup = [e \in Enemies |->
           IF e = "E1" THEN [where |-> "carried", kind |-> "Null", lifetime |-> 0]
           ELSE NoPickup]
    /\ player_colliding = {}
    /\ spawner_cooldown = 5 * SCALE
    /\ next_id = 2
    /\ state = "Playing"
    /\ next_state = "Unchanged"
    /\ next_wog_state = "Unchanged"
    /\ pc = "bullet_hit_system"
    /\ qb_done = FALSE
    /\ tick = 1
    /\ inputs_left = 0
    /\ hit_log = <<>>
    /\ hurt_events = <<>>
    /\ death_log = <<>>
    /\ last_check = [ran |-> FALSE, tick |-> 0, fever |-> 0, fervor_base |-> 0,
                     requested |-> "None"]

NextHit == bullet_hit_system

SpecHit == InitHit /\ [][NextHit]_vars

\* ------------------------------------------------------------------------
\* The decay on its own: quantity_behaviors_system runs tick after tick on
\* quantities that nothing else mutates, for the fixed timestep and for a
\* timestep of a whole second

DecayDTs == {156, 10000}

InitDecay ==
    /\ HarnessIdle
    /\ dt \in DecayDTs
    /\ qb_before = "physics"
    /\ coherence \in [base : {0, 5000, ONE}, temporary_stack : {-2000, -1000, 0}]
    /\ fever \in [base : {Fever_INITIAL, 9000}, temporary_stack : {0, 1000, 2000}]
    /\ fervor \in {q \in [base : {Fervor_INITIAL, 500, 5000, 9988},
                           temporary_stack : {-1000, -500, 0, 3000}] :
                      q.temporary_stack >= -q.base}
    /\ attackable = [t \in Targets |-> IF t = "P" THEN PlayerAttackable ELSE NoAttackable]
    /\ gun = [t \in Targets |-> IF t = "P" THEN PlayerGun ELSE NoGun]
    /\ ai = [e \in Enemies |-> "none"]
    /\ pickup = [e \in Enemies |-> NoPickup]
    /\ bullets = <<>>
    /\ player_colliding = {}
    /\ spawner_cooldown = 5 * SCALE
    /\ next_id = 1
    /\ state = "Playing"
    /\ next_state = "Unchanged"
    /\ next_wog_state = "Unchanged"
    /\ pc = "physics"
    /\ qb_done = FALSE
    /\ tick = 1
    /\ inputs_left = 0
    /\ hit_log = <<>>
    /\ hurt_events = <<>>
    /\ death_log = <<>>
    /\ last_check = [ran |-> FALSE, tick |-> 0, fever |-> 0, fervor_base |-> 0,
                     requested |-> "None"]

\* the rest of a tick and the start of the next one, in which no other system
\* touches a Quantity
QuietTick ==
    /\ pc = qb_before
    /\ qb_done
    /\ tick < MaxTicks
    /\ tick' = tick + 1
    /\ qb_done' = FALSE
    /\ UNCHANGED <<harness_vars, quantity_vars, entity_vars, state, next_state,
                   next_wog_state, pc, qb_before, dt, env_vars, log_vars>>

NextDecay ==
    \/ quantity_behaviors_system
    \/ QuietTick

SpecDecay == InitDecay /\ [][NextDecay]_vars

\* ------------------------------------------------------------------------
\* The conversion on its own: player_health_is_fever_system runs on a player
\* of any health

\* the health of the player when the conversion runs
ConversionHealths == 0 .. U8_MAX

InitConversion ==
    /\ HarnessIdle
    /\ dt \in DTs
    /\ qb_before = "physics"
    /\ coherence = Quantity_new(Coherence_INITIAL)
    /\ fever \in {[base |-> Fever_INITIAL, temporary_stack |-> 0],
                  [base |-> Fever_INITIAL, temporary_stack |-> 2000],
                  [base |-> 9000, temporary_stack |-> 0]}
    /\ fervor \in {[base |-> 5000, temporary_stack |-> 3000],
                   [base |-> 9988, temporary_stack |-> -500]}
    /\ \E h \in ConversionHealths :
         attackable = [t \in Targets |->
             IF t = "P" THEN [PlayerAttackable EXCEPT !.health = h] ELSE NoAttackable]
    /\ gun = [t \in Targets |-> IF t = "P" THEN PlayerGun ELSE NoGun]
    /\ ai = [e \in Enemies |-> "none"]
    /\ pickup = [e \in Enemies |-> NoPickup]
    /\ bullets = <<>>
    /\ player_colliding = {}
    /\ spawner_cooldown = 5 * SCALE
    /\ next_id = 1
    /\ state = "Playing"
    /\ next_state = "Unchanged"
    /\ next_wog_state = "Unchanged"
    /\ pc = "player_health_is_fever_system"
    /\ qb_done = FALSE
    /\ tick = 1
    /\ inputs_left = 0
    /\ hit_log = <<>>
    /\ hurt_events = <<>>
    /\ death_log = <<>>
    /\ last_check = [ran |-> FALSE, tick |-> 0, fever |-> 0, fervor_base |-> 0,
                     requested |-> "None"]

NextConversion == player_health_is_fever_system

SpecConversion == InitConversion /\ [][NextConversion]_vars

\* ------------------------------------------------------------------------
\* A longer stretch of a game, long enough for the gun of the player to cool
\* down and fire again, before the first enemies or between two waves

\* number of ticks of the stretch
MaxGunTicks == 24

InitGun ==
    /\ HarnessIdle
    /\ Scheduled
    /\ dt \in DTs
    /\ qb_before = "physics"
    /\ coherence \in {Quantity_new(Coherence_INITIAL), Quantity_new(8000)}
    /\ fever = Quantity_new(Fever_INITIAL)
    /\ fervor = Quantity_new(Fervor_INITIAL)
    /\ attackable = [t \in Targets |->
           IF t = "P" THEN [PlayerAttackable EXCEPT !.changed = FALSE] ELSE NoAttackable]
    /\ gun = [t \in Targets |-> IF t = "P" THEN PlayerGun ELSE NoGun]
    /\ ai = [e \in Enemies |-> "none"]
    /\ pickup = [e \in Enemies |-> NoPickup]
    /\ bullets = <<>>
    /\ player_colliding = {}
    /\ spawner_cooldown = 5 * SCALE
    /\ next_id = 1

\* one more tick of the stretch starts
GunBeginTick ==
    /\ UNCHANGED harness_vars
    /\ pc = "idle"
    /\ state = "Playing"
    /\ tick < MaxGunTicks
    /\ tick' = tick + 1
    /\ pc' = TickOrder[1]
    /\ qb_done' = FALSE
    /\ hurt_events' = <<>>
    /\ UNCHANGED <<quantity_vars, entity_vars, state, next_state, next_wog_state,
                   qb_before, dt, env_vars, hit_log, death_log, last_check>>

\* the observer of the fire button, however many bullets are in flight
GunPress ==
    /\ UNCHANGED harness_vars
    /\ pc = "idle"
    /\ state = "Playing"
    /\ inputs_left > 0
    /\ gun["P"].exists
    /\ inputs_left' = inputs_left - 1
    /\ gun' = IF gun["P"].cooldown <= EARLY_TRIGGER_WINDOW
              THEN [gun EXCEPT !["P"].trigger = TRUE]
              ELSE gun
    /\ UNCHANGED <<quantity_vars, attackable, ai, pickup, bullets, player_colliding,
                   spawner_cooldown, schedule_vars, next_id, log_vars>>

NextGun ==
    \/ GunBeginTick
    \/ GunPress
    \/ spawn_enemies_system
    \/ expire_lifetimes
    \/ apply_movement
    \/ pickup_system
    \/ gun_cooldown
    \/ enemy_ship_ai
    \/ fire_gun_system
    \/ bullet_hit_system
    \/ death_system
    \/ player_health_is_fever_system
    \/ quantity_behaviors_system
    \/ physics

SpecGun == InitGun /\ [][NextGun]_vars

\* ------------------------------------------------------------------------
\* Properties of the game

\* the indices of the hits logged
Hits == 1 .. Len(hit_log)

\* the bullet with identity id exists
BulletExists(id) == \E i \in 1 .. Len(bullets) : bullets[i].id = id

\* the bullet with identity id
BulletById(id) == bullets[CHOOSE i \in 1 .. Len(bullets) : bullets[i].id = id]

\* system `name` has run in the current tick
HasRun(name) == pc = "idle" \/ (pc # "idle" /\ IndexOf(pc) > IndexOf(name))

\* the step taken is a run of system `name`
StepOf(name) == pc = name /\ pc' = After(name)

\* C4: every hit applied by bullet_hit_system leaves the target with
\* max(health - damage, 0): a u8 again, 0 whenever the damage exceeds the
\* health, never a wrapped-around value
C4_SaturatingHealth ==
    \A k \in Hits :
        LET e == hit_log[k] IN
        /\ e.after \in 0 .. U8_MAX
        /\ e.after = (IF e.before - e.damage > 0 THEN e.before - e.damage ELSE 0)
        /\ (e.damage > e.before => e.after = 0)
        /\ attackable[e.target].health = e.after

\* C4 witness: a hit whose damage exceeds the health of its target was applied
C4_Witness ==
    \E k \in Hits :
        /\ hit_log[k].damage > hit_log[k].before
        /\ hit_log[k].before > 0
        /\ attackable[hit_log[k].target].health = 0

\* the truth table of should_hurt
ShouldHurtTable ==
    /\ ~should_hurt("Player", "Player")
    /\ ~should_hurt("Enemy", "Enemy")
    /\ should_hurt("Player", "Enemy")
    /\ should_hurt("Enemy", "Player")

\* bullet number i overlaps no target but targets of its own team
OverlapsOwnTeamOnly(i) ==
    \A c \in bullets[i].colliding \cap Targets :
        attackable[c].exists => TeamOf(c) = bullets[i].team

\* target t is overlapped by no bullet but bullets of its own team
OverlappedByOwnTeamOnly(t) ==
    \A i \in 1 .. Len(bullets) :
        t \in bullets[i].colliding => bullets[i].team = TeamOf(t)

\* C5: friendly fire is impossible: should_hurt holds between different teams
\* only, and a run of bullet_hit_system changes no target that only bullets of
\* its own team overlap, and no bullet that overlaps only targets of its own
\* team; no hit is ever logged between a bullet and a target of one team
C5_NoFriendlyFire ==
    [][/\ ShouldHurtTable
       /\ StepOf("bullet_hit_system") =>
            /\ \A t \in Targets :
                 OverlappedByOwnTeamOnly(t) => attackable'[t] = attackable[t]
            /\ \A i \in 1 .. Len(bullets) :
                 OverlapsOwnTeamOnly(i) => bullets'[i] = bullets[i]
            /\ \A k \in 1 .. Len(hit_log') :
                 hit_log'[k].team # TeamOf(hit_log'[k].target)]_vars

\* C5 witness: bullet_hit_system has just run while a bullet in flight overlapped
\* an existing target of its own team
C5_Witness ==
    /\ pc = After("bullet_hit_system")
    /\ \E i \in 1 .. Len(bullets) :
         /\ bullets[i].lifetime > 0
         /\ \E c \in bullets[i].colliding \cap Targets :
              attackable[c].exists /\ TeamOf(c) = bullets[i].team

\* the kill side-effect sequences run for target t in tick n
DeathsOf(t, n) ==
    {k \in 1 .. Len(death_log) : death_log[k].entity = t /\ death_log[k].tick = n}

\* C6: a target brought to health 0 by a hit is not hit again in that tick,
\* and death_system runs exactly one kill side-effect sequence for it
C6_AtMostOneKill ==
    \A k \in Hits :
        hit_log[k].after = 0 =>
            /\ \A j \in Hits :
                 (j > k /\ hit_log[j].tick = hit_log[k].tick)
                     => hit_log[j].target # hit_log[k].target
            /\ Cardinality(DeathsOf(hit_log[k].target, hit_log[k].tick)) <= 1
            /\ (hit_log[k].tick < tick \/ HasRun("death_system"))
                   => Cardinality(DeathsOf(hit_log[k].target, hit_log[k].tick)) = 1

\* C6 witness: two bullets overlapped the same target in this tick, the hit of
\* the first killed it, and death_system has run
C6_Witness ==
    /\ pc = After("death_system")
    /\ \E i, j \in 1 .. Len(bullets), k \in Hits :
         /\ i < j
         /\ hit_log[k].tick = tick
         /\ hit_log[k].bullet = bullets[i].id
         /\ hit_log[k].after = 0
         /\ hit_log[k].target \in bullets[i].colliding \cap bullets[j].colliding
         /\ should_hurt(bullets[j].team, TeamOf(hit_log[k].target))
         /\ Cardinality(DeathsOf(hit_log[k].target, tick)) = 1

\* C7: a bullet that hit has Lifetime 0 and exists until the end of the tick
\* of the hit; in the following tick it exists until expire_lifetimes has run
\* and not after
C7_BulletDiesNextTick ==
    \A k \in Hits :
        LET e == hit_log[k] IN
        /\ e.tick = tick => (BulletExists(e.bullet) /\ BulletById(e.bullet).lifetime = 0)
        /\ (e.tick < tick /\ BulletExists(e.bullet)) =>
               /\ e.tick = tick - 1
               /\ pc \in {"spawn_enemies_system", "expire_lifetimes"}
               /\ BulletById(e.bullet).lifetime = 0
        /\ (e.tick < tick /\ pc \notin {"spawn_enemies_system", "expire_lifetimes"})
               => ~BulletExists(e.bullet)

\* C7 witness: expire_lifetimes of the tick after a hit has just run and the
\* bullet is gone
C7_Witness ==
    /\ pc = After("expire_lifetimes")
    /\ \E k \in Hits : hit_log[k].tick = tick - 1 /\ ~BulletExists(hit_log[k].bullet)

\* C7 witness: the tick of a hit is over and the bullet is still there
C7_StillThere ==
    /\ pc = "idle"
    /\ \E k \in Hits : hit_log[k].tick = tick /\ BulletExists(hit_log[k].bullet)

\* C9: the win/lose check requests GameOver exactly when the effective Fever
\* is 1.0, Win exactly when it is not and the base of Fervor is at least
\* 0.999, and nothing otherwise
C9_WinLoseCheck ==
    [][(~qb_done /\ qb_done') =>
          LET lose == FEq(effective_value(fever), ONE)
              win == ~lose /\ FGe(fervor.base, 9990)
          IN  /\ lose <=> (last_check'.requested = "GameOver")
              /\ win <=> (last_check'.requested = "Win")
              /\ ~(lose \/ win) <=> (last_check'.requested = "None")
              /\ lose => (next_state' = "WinOrGameOver" /\ next_wog_state' = "GameOver")
              /\ win => (next_state' = "WinOrGameOver" /\ next_wog_state' = "Win")
              /\ ~(lose \/ win) => UNCHANGED <<next_state, next_wog_state>>]_vars

\* C9 witness: a check found both conditions true and requested GameOver
C9_Witness ==
    /\ last_check.ran
    /\ last_check.fever = ONE
    /\ last_check.fervor_base >= 9990
    /\ last_check.requested = "GameOver"
    /\ next_wog_state = "GameOver"

\* C9 witness: a check requested Win
C9_WinReached == last_check.ran /\ last_check.requested = "Win" /\ next_wog_state = "Win"

\* health 10 hit for 3, 3 and 5: health 7, 4 and 0, dying after the third hit only
HitScenario ==
    LET h1 == saturating_sub(10, 3)
        h2 == saturating_sub(h1, 3)
        h3 == saturating_sub(h2, 5)
    IN  /\ h1 = 7 /\ ~is_dying(h1)
        /\ h2 = 4 /\ ~is_dying(h2)
        /\ h3 = 0 /\ is_dying(h3)

\* C10: death_system despawns a target only when its health is 0; a target
\* whose health is greater than 0 is left as it is
C10_DeathSweep ==
    [][/\ HitScenario
       /\ StepOf("death_system") =>
            \A t \in Targets :
                attackable[t].exists =>
                    /\ ~attackable'[t].exists => attackable[t].health = 0
                    /\ attackable[t].health > 0 =>
                          /\ attackable'[t].exists
                          /\ attackable'[t].health = attackable[t].health
                          /\ \A k \in 1 .. Len(death_log') :
                                 death_log'[k].entity = t => death_log'[k].tick < tick]_vars

\* C10 witness: an enemy of health 10 was hit in three ticks in a row, had
\* health 7 and 4 after the first two, 0 in the third, and death_system
\* despawned it in the third
C10_Witness ==
    /\ tick = 3
    /\ ~attackable["E1"].exists
    /\ DeathsOf("E1", 3) # {}
    /\ DeathsOf("E1", 1) = {}
    /\ DeathsOf("E1", 2) = {}
    /\ \E k1, k2, k3 \in Hits :
         /\ hit_log[k1].target = "E1" /\ hit_log[k1].tick = 1
         /\ hit_log[k1].before = 10 /\ hit_log[k1].after = 7
         /\ hit_log[k2].target = "E1" /\ hit_log[k2].tick = 2 /\ hit_log[k2].after = 4
         /\ hit_log[k3].target = "E1" /\ hit_log[k3].tick = 3 /\ hit_log[k3].after = 0

\* ------------------------------------------------------------------------
\* Properties of the decay (checked under SpecDecay)

\* the step taken is a run of quantity_behaviors_system
DecayStep == ~qb_done /\ qb_done'

\* C11: the decay moves the pending temporary stack of Coherence into its
\* base by change = temporary_stack * (2^dt - 1): base becomes
\* clamp(base + change), the stack loses change; from base 0.5 and stack -0.2
\* with dt = 1.0 the result is base 0.3 and stack 0.0
C11_CoherenceDecay ==
    [][DecayStep =>
          LET change == FMul(coherence.temporary_stack, FSub(powf(2 * SCALE, dt), ONE))
          IN  /\ coherence'.base = FClamp(FAdd(coherence.base, change), 0, ONE)
              /\ coherence'.temporary_stack = FSub(coherence.temporary_stack, change)
              /\ (dt = 10000 /\ coherence = [base |-> 5000, temporary_stack |-> -2000])
                     => coherence' = [base |-> 3000, temporary_stack |-> 0]]_vars

\* C11 witness: the first decay with dt = 1.0 has run from base 0.5 and stack
\* -0.2 (no other start gives base 0.3)
C11_Witness ==
    /\ dt = 10000
    /\ tick = 1
    /\ qb_done
    /\ coherence = [base |-> 3000, temporary_stack |-> 0]

\* ------------------------------------------------------------------------
\* More properties of the game (checked under Spec)

\* C12: player_health_is_fever_system leaves a player whose health was below
\* u8::MAX with health 0 if the effective Fever is then exactly 1.0 and with
\* u8::MAX otherwise; a player with health u8::MAX is left unchanged
C12_HealthIsFever ==
    [][(StepOf("player_health_is_fever_system") /\ attackable["P"].exists) =>
          IF attackable["P"].health < U8_MAX
          THEN /\ attackable'["P"].exists
               /\ attackable'["P"].health =
                      (IF FEq(effective_value(fever'), ONE) THEN 0 ELSE U8_MAX)
          ELSE attackable'["P"] = attackable["P"]]_vars

\* C12 witness: the conversion has just run on a damaged player and left it
\* with health 0, Fever being 1.0
C12_Witness ==
    /\ pc = After("player_health_is_fever_system")
    /\ \E k \in Hits : hit_log[k].tick = tick /\ hit_log[k].target = "P"
    /\ attackable["P"].exists
    /\ attackable["P"].health = 0
    /\ effective_value(fever) = ONE

\* C12 witness: the conversion has just run on a damaged player and restored
\* its health, Fever being below 1.0
C12_Restored ==
    /\ pc = After("player_health_is_fever_system")
    /\ \E k \in Hits : hit_log[k].tick = tick /\ hit_log[k].target = "P"
    /\ attackable["P"].health = U8_MAX
    /\ effective_value(fever) < ONE

\* ------------------------------------------------------------------------
\* Properties of the operations called with NaN (checked under SpecNaN)

\* C13: in a release build an adjust_permanent_* call or a reset_to whose new
\* base value would be NaN leaves base and temporary_stack exactly as they
\* were (the claim as stated; the code clears or poisons the stack)
C13_AsStated ==
    (op \in PermanentOps /\ IsNaN(NewBaseValue(op, quantity_pre, arg)))
        => quantity = quantity_pre

\* what the code does keep in that case: base
C13_BaseKept ==
    (op \in PermanentOps /\ IsNaN(NewBaseValue(op, quantity_pre, arg)))
        => quantity.base = quantity_pre.base

\* reset_to(NaN) has cleared a stack that was not empty
C13_StackCleared ==
    /\ op = "reset_to"
    /\ IsNaN(arg)
    /\ quantity_pre.temporary_stack # 0
    /\ quantity.base = quantity_pre.base
    /\ quantity.temporary_stack = 0

\* adjust_permanent_keeping_temporary_absolutely(NaN) has made the stack NaN
C13_StackPoisoned ==
    /\ op = "adjust_permanent_keeping_temporary_absolutely"
    /\ IsNaN(arg)
    /\ ~IsNaN(quantity_pre.temporary_stack)
    /\ IsNaN(quantity.temporary_stack)

\* ------------------------------------------------------------------------
\* More properties of the Quantity operations (checked under SpecQuantity)

\* C14: adjust_permanent_clearing_temporary(delta) leaves
\* base = clamp(base_before + delta, 0, 1) and an empty stack, and the result
\* is the same whatever the stack held before
C14_ClearingTemporary ==
    op = "adjust_permanent_clearing_temporary" =>
        /\ quantity.base = FClamp(FAdd(quantity_pre.base, arg), 0, ONE)
        /\ quantity.temporary_stack = 0
        /\ \A s \in {NInf, -6000, 0, 6000, PInf} :
               adjust_permanent_clearing_temporary(
                   [quantity_pre EXCEPT !.temporary_stack = s], arg) = quantity

\* C14 witness: the call was made on a stack that was not empty, and counting
\* the stack in would have given another base
C14_Witness ==
    /\ op = "adjust_permanent_clearing_temporary"
    /\ quantity_pre.temporary_stack # 0
    /\ quantity.base # FClamp(FAdd(unclamped_effective_value(quantity_pre), arg), 0, ONE)
    /\ quantity.base # FClamp(FAdd(effective_value(quantity_pre), arg), 0, ONE)

\* C15 as stated: adjust_permanent_keeping_temporary_absolutely leaves the sum
\* base + temporary_stack as it was
C15_AsStated ==
    op = "adjust_permanent_keeping_temporary_absolutely" =>
        unclamped_effective_value(quantity) = unclamped_effective_value(quantity_pre)

\* base + delta is not clamped
Unclamped(q, delta) == InUnitInterval(FAdd(q.base, delta))

\* C15: adjust_permanent_keeping_temporary_absolutely(delta) leaves
\* base = clamp(base_before + delta, 0, 1) and stack = stack_before - delta;
\* the sum base + temporary_stack is kept when base_before + delta is in [0,1]
\* (and the stack stays finite)
C15_KeepingAbsolutely ==
    op = "adjust_permanent_keeping_temporary_absolutely" =>
        /\ quantity.base = FClamp(FAdd(quantity_pre.base, arg), 0, ONE)
        /\ quantity.temporary_stack = FSub(quantity_pre.temporary_stack, arg)
        /\ (/\ Unclamped(quantity_pre, arg)
            /\ IsFinite(quantity_pre.temporary_stack)
            /\ IsFinite(quantity.temporary_stack))
               => unclamped_effective_value(quantity)
                      = unclamped_effective_value(quantity_pre)

\* C15 witness: the call moved a part of a stack that was not empty into
\* base, without clamping
C15_Witness ==
    /\ op = "adjust_permanent_keeping_temporary_absolutely"
    /\ arg # 0
    /\ quantity_pre.temporary_stack # 0
    /\ Unclamped(quantity_pre, arg)
    /\ IsFinite(quantity_pre.temporary_stack)
    /\ IsFinite(quantity.temporary_stack)
    /\ quantity.base # quantity_pre.base

\* the call was clamped and the sum moved: base 0, delta -0.6
C15_Clamped ==
    /\ op = "adjust_permanent_keeping_temporary_absolutely"
    /\ quantity_pre = [base |-> 0, temporary_stack |-> 0]
    /\ arg = -6000
    /\ quantity = [base |-> 0, temporary_stack |-> 6000]

\* ------------------------------------------------------------------------
\* Properties of hit resolution (checked under Spec)

\* the hits logged by the step taken
NewHits == (Len(hit_log) + 1) .. Len(hit_log')

\* the hits of the current tick by the bullet with identity id
HitsBy(id) == {k \in Hits : hit_log[k].tick = tick /\ hit_log[k].bullet = id}

\* C16 as stated: a bullet applies at most one hit per tick
C16_AsStated ==
    \A j, k \in Hits :
        (hit_log[j].tick = hit_log[k].tick /\ hit_log[j].bullet = hit_log[k].bullet)
            => j = k

\* C16: a bullet that applied a hit is marked resolved (Lifetime 0), and its
\* other collisions are still evaluated: it applies at most one hit to each
\* target in a tick, and no more hits than it overlaps targets
C16_ResolvedNotStopped ==
    /\ \A j, k \in Hits :
          (/\ hit_log[j].tick = hit_log[k].tick
           /\ hit_log[j].bullet = hit_log[k].bullet
           /\ hit_log[j].target = hit_log[k].target) => j = k
    /\ (pc # "idle" /\ HasRun("bullet_hit_system")) =>
          \A i \in 1 .. Len(bullets) :
              /\ HitsBy(bullets[i].id) # {} => bullets[i].lifetime = 0
              /\ Cardinality(HitsBy(bullets[i].id))
                    <= Cardinality(bullets[i].colliding \cap Targets)

\* C16 witness: bullet_hit_system has just run, and one bullet, now resolved,
\* has applied two hits
C16_Witness ==
    /\ pc = After("bullet_hit_system")
    /\ \E i \in 1 .. Len(bullets) :
         /\ Cardinality(HitsBy(bullets[i].id)) = 2
         /\ bullets[i].lifetime = 0

\* target c is one that bullet number i can hurt
ValidTarget(i, c) ==
    /\ c \in Targets
    /\ attackable[c].exists
    /\ should_hurt(bullets[i].team, TeamOf(c))

\* C17: a run of bullet_hit_system applies a hit of every bullet to every
\* existing target of the other team that the bullet overlaps, unless an
\* earlier hit of the run has killed the target; each hit takes the damage of
\* the bullet off the health, saturating at 0
C17_MultipleTargets ==
    [][StepOf("bullet_hit_system") =>
          \A i \in 1 .. Len(bullets) : \A c \in bullets[i].colliding :
              ValidTarget(i, c) =>
                  \/ \E k \in NewHits :
                        /\ hit_log'[k].bullet = bullets[i].id
                        /\ hit_log'[k].target = c
                        /\ hit_log'[k].damage = bullets[i].damage
                        /\ hit_log'[k].after =
                               (IF hit_log'[k].before > bullets[i].damage
                                THEN hit_log'[k].before - bullets[i].damage ELSE 0)
                        /\ attackable'[c].health <= hit_log'[k].after
                  \/ \E k \in NewHits :
                        /\ hit_log'[k].bullet # bullets[i].id
                        /\ hit_log'[k].target = c
                        /\ hit_log'[k].after = 0]_vars

\* C17 witness: bullet_hit_system has just run, and one bullet has killed two
\* targets
C17_Witness ==
    /\ pc = After("bullet_hit_system")
    /\ \E j, k \in Hits :
         /\ hit_log[j].tick = tick /\ hit_log[k].tick = tick
         /\ hit_log[j].bullet = hit_log[k].bullet
         /\ hit_log[j].target # hit_log[k].target
         /\ hit_log[j].before > 0 /\ hit_log[j].after = 0
         /\ hit_log[k].before > 0 /\ hit_log[k].after = 0

\* the hits logged by the step taken on target t
NewHitsOn(t) == {k \in NewHits : hit_log'[k].target = t}

\* the last of a set of hits
LastOf(S) == CHOOSE k \in S : \A j \in S : j <= k

\* the hits logged so far on target t
HitsOn(t) == {k \in Hits : hit_log[k].target = t}

\* C18: every hit applied, lethal or not, sets last_hit_by of the target to
\* the team of the bullet, and nothing else changes it: when death_system
\* processes a target that was hit, its last_hit_by is the team of the last
\* bullet that hit it, and a new target has last_hit_by None
C18_LastHitBy ==
    [][/\ \A t \in Targets :
            /\ (attackable[t].exists /\ attackable'[t].exists) =>
                   attackable'[t].last_hit_by =
                       (IF NewHitsOn(t) = {} THEN attackable[t].last_hit_by
                        ELSE hit_log'[LastOf(NewHitsOn(t))].team)
            /\ (~attackable[t].exists /\ attackable'[t].exists) =>
                   attackable'[t].last_hit_by = "None"
       /\ StepOf("death_system") =>
            \A t \in Targets :
                (attackable[t].exists /\ HitsOn(t) # {}) =>
                    attackable[t].last_hit_by = hit_log[LastOf(HitsOn(t))].team]_vars

\* C18 witness: bullet_hit_system has just run, and a hit that was not lethal
\* has attributed an enemy nobody had hit before
C18_Witness ==
    /\ pc = After("bullet_hit_system")
    /\ \E k \in Hits :
         /\ hit_log[k].tick = tick
         /\ hit_log[k].target = "E1"
         /\ hit_log[k].before = 10
         /\ hit_log[k].after > 0
         /\ HitsOn("E1") = {k}
         /\ attackable["E1"].last_hit_by = "Player"

\* C19: a run of bullet_hit_system triggers one Hurt for the target of each
\* hit it applies, in the order of the hits, and no other
C19_OneHurtPerHit ==
    [][StepOf("bullet_hit_system") =>
          /\ Len(hurt_events') - Len(hurt_events) = Len(hit_log') - Len(hit_log)
          /\ SubSeq(hurt_events', 1, Len(hurt_events)) = hurt_events
          /\ \A j \in 1 .. (Len(hit_log') - Len(hit_log)) :
                hurt_events'[Len(hurt_events) + j] = hit_log'[Len(hit_log) + j].target]_vars

\* C19 witness: bullet_hit_system has just run and triggered Hurt for the
\* hits it applied, while it skipped the collision of a bullet with a target
\* killed earlier in the run, that of a bullet with a target of its own team
\* or that of a bullet with an entity that is not attackable
C19_Witness ==
    /\ pc = After("bullet_hit_system")
    /\ \E k \in Hits : hit_log[k].tick = tick
    /\ Len(hurt_events) = Cardinality({k \in Hits : hit_log[k].tick = tick})
    /\ \E i \in 1 .. Len(bullets) : \E c \in bullets[i].colliding :
         /\ c \in Targets
         /\ \A k \in HitsBy(bullets[i].id) : hit_log[k].target # c

\* C19 witness: bullet_hit_system has just run and triggered no Hurt for a
\* bullet in flight that overlaps the player and a piece of debris
C19_Skipped ==
    /\ pc = After("bullet_hit_system")
    /\ hurt_events = <<>>
    /\ \E i \in 1 .. Len(bullets) :
         bullets[i].team = "Player" /\ bullets[i].colliding = {"P", Debris}

\* C20: a run of bullet_hit_system in which a bullet of the player applies a
\* hit leaves Coherence with an empty temporary stack and the base it had;
\* a run in which none does leaves Coherence as it was
C20_CoherenceLossCancelled ==
    [][StepOf("bullet_hit_system") =>
          IF \E k \in NewHits : hit_log'[k].team = "Player"
          THEN /\ coherence'.temporary_stack = 0
               /\ coherence'.base = coherence.base
          ELSE coherence' = coherence]_vars

\* C20 witness: the player has fired in this tick (the new bullets have their
\* whole Lifetime), a bullet of the player has hit, and the stack of
\* Coherence is empty
C20_Witness ==
    /\ pc = After("bullet_hit_system")
    /\ \E i \in 1 .. Len(bullets) :
         bullets[i].team = "Player" /\ bullets[i].lifetime = BulletLifetime("Player")
    /\ \E k \in Hits : hit_log[k].tick = tick /\ hit_log[k].team = "Player"
    /\ coherence.temporary_stack = 0
    /\ coherence.base > 0

\* C20 witness: only a bullet of an enemy has hit in this tick, and Coherence
\* still has its pending loss
C20_EnemyHit ==
    /\ pc = After("bullet_hit_system")
    /\ \E k \in Hits : hit_log[k].tick = tick
    /\ \A k \in Hits : hit_log[k].tick = tick => hit_log[k].team = "Enemy"
    /\ coherence.temporary_stack < 0

\* ------------------------------------------------------------------------
\* Properties of the death sweep and of the conversion of health (checked
\* under Spec)

\* the targets death_system is about to despawn
Dying == {t \in Targets : attackable[t].exists /\ attackable[t].health = 0}

\* the kill side-effect sequences run by the step taken
NewDeaths == (Len(death_log) + 1) .. Len(death_log')

\* C21: death_system changes Fervor for a dying entity if and only if
\* last_hit_by of the entity is Player and the effective Coherence is greater
\* than the effective Fever; a death attributed to an enemy or to nobody, and
\* a death while Coherence does not exceed Fever, leave Fervor as it was
C21_FervorCredit ==
    [][StepOf("death_system") =>
          LET active == FGt(effective_value(coherence), effective_value(fever))
              Credited == {t \in Dying : attackable[t].last_hit_by = "Player" /\ active}
          IN  /\ {death_log'[k].entity : k \in NewDeaths} = Dying
              /\ \A k \in NewDeaths :
                    death_log'[k].credited <=> death_log'[k].entity \in Credited
              /\ Credited = {} => fervor' = fervor
              /\ Credited # {} =>
                    /\ fervor'.temporary_stack > fervor.temporary_stack
                    /\ fervor'.base = fervor.base]_vars

\* C21 witness: death_system has just despawned an enemy the player killed
\* while Coherence exceeded Fever, and has credited the kill
C21_Witness ==
    /\ pc = After("death_system")
    /\ FGt(effective_value(coherence), effective_value(fever))
    /\ \E k \in 1 .. Len(death_log) :
         /\ death_log[k].tick = tick
         /\ death_log[k].entity \in Enemies
         /\ death_log[k].credited
         /\ hit_log[LastOf(HitsOn(death_log[k].entity))].team = "Player"

\* C21 witness: death_system has just despawned an enemy the player killed
\* while Coherence did not exceed Fever, and no kill is credited
C21_NotActive ==
    /\ pc = After("death_system")
    /\ ~FGt(effective_value(coherence), effective_value(fever))
    /\ \E k \in 1 .. Len(death_log) :
         /\ death_log[k].tick = tick
         /\ death_log[k].entity \in Enemies
         /\ HitsOn(death_log[k].entity) # {}
         /\ hit_log[LastOf(HitsOn(death_log[k].entity))].team = "Player"
    /\ \A k \in 1 .. Len(death_log) : ~death_log[k].credited

\* C21 witness: death_system has just despawned the player, whom an enemy
\* hit last, while Coherence exceeded Fever, and no kill is credited
C21_EnemyKill ==
    /\ pc = After("death_system")
    /\ \E k \in 1 .. Len(death_log) :
         /\ death_log[k].tick = tick
         /\ death_log[k].entity = "P"
         /\ ~death_log[k].credited
         /\ hit_log[LastOf(HitsOn("P"))].team = "Enemy"

\* the amount death_system credits: 0.0301 + 0.03 * max(temporary_stack, 0.4)
AddedFervor(q) == FAdd(301, FMul(300, FMaxOf(q.temporary_stack, 4000)))

\* Fervor after one credited kill: the amount is added to the temporary stack
CreditOnce(q) == [q EXCEPT !.temporary_stack = FAdd(@, AddedFervor(q))]

\* the dying targets whose kill death_system credits
CreditedKills ==
    {t \in Dying : /\ attackable[t].last_hit_by = "Player"
                   /\ FGt(effective_value(coherence), effective_value(fever))}

\* C22 as stated: a credited kill commits the temporary stack of Fervor into
\* its base and makes the amount the new temporary stack
C22_AsStated ==
    [][(StepOf("death_system") /\ Cardinality(CreditedKills) = 1) =>
          /\ fervor'.base = effective_value(fervor)
          /\ fervor'.temporary_stack = AddedFervor(fervor)]_vars

\* C22: death_system credits a kill of the player through
\* adjust_temporary_stacking_with_previous with the amount
\* 0.0301 + 0.03 * max(temporary_stack, 0.4): the amount is added to the
\* temporary stack of Fervor, nothing is committed and the base is kept
C22_StackedCredit ==
    [][StepOf("death_system") =>
          LET n == Cardinality(CreditedKills) IN
          /\ n <= 2
          /\ n = 0 => fervor' = fervor
          /\ n = 1 => fervor' = CreditOnce(fervor)
          /\ n = 2 => fervor' = CreditOnce(CreditOnce(fervor))]_vars

\* C22 witness: death_system has just credited a kill while Fervor had a
\* temporary stack, the stack has grown and the base has not taken it up
C22_Witness ==
    /\ pc = After("death_system")
    /\ \E k \in 1 .. Len(death_log) : death_log[k].tick = tick /\ death_log[k].credited
    /\ fervor.temporary_stack > 3000
    /\ fervor.base < 9990

\* C22 witness: death_system has just credited two kills of one tick
C22_Combo ==
    /\ pc = After("death_system")
    /\ \E j, k \in 1 .. Len(death_log) :
         /\ j # k
         /\ death_log[j].tick = tick /\ death_log[j].credited
         /\ death_log[k].tick = tick /\ death_log[k].credited

\* C23: when the health of the player is below u8::MAX,
\* player_health_is_fever_system raises Fever by (u8::MAX - health) * 0.1
\* through adjust_permanent_including_temporary and resets Fervor to base 0
\* with an empty temporary stack, whatever the damage; when the health is
\* u8::MAX it changes neither Fever nor Fervor
C23_FeverUpFervorReset ==
    [][StepOf("player_health_is_fever_system") =>
          IF attackable["P"].exists /\ attackable["P"].health < U8_MAX
          THEN /\ fever' =
                     [base |-> FClamp(FAdd(effective_value(fever),
                                           Norm((U8_MAX - attackable["P"].health) * 1000)),
                                      0, ONE),
                      temporary_stack |-> 0]
               /\ fervor' = [base |-> 0, temporary_stack |-> 0]
          ELSE fever' = fever /\ fervor' = fervor]_vars

\* C23 witness: the conversion has just run on a damaged player: Fever is
\* 0.8 with an empty stack (0.5 and three points of damage, or 0.5 + 0.2 and
\* one) and Fervor, which had a stack, is reset
C23_Witness ==
    /\ pc = After("player_health_is_fever_system")
    /\ fever = [base |-> 8000, temporary_stack |-> 0]
    /\ fervor = [base |-> 0, temporary_stack |-> 0]
    /\ attackable["P"].health = U8_MAX

\* C23 witness: the conversion has just run on a player of health u8::MAX
\* and the stacks of Fever and Fervor are still there
C23_Untouched ==
    /\ pc = After("player_health_is_fever_system")
    /\ attackable["P"].health = U8_MAX
    /\ fever = [base |-> Fever_INITIAL, temporary_stack |-> 2000]
    /\ fervor = [base |-> 5000, temporary_stack |-> 3000]

\* ------------------------------------------------------------------------
\* Properties of the order of the systems of a tick (checked under Spec)

\* C24 as stated: the win/lose check and the decay of a tick run after
\* bullet_hit_system and player_health_is_fever_system of the tick (the code
\* orders quantity_behaviors_system against none of them)
C24_AsStated ==
    (pc # "idle" /\ qb_done) =>
        /\ HasRun("bullet_hit_system")
        /\ HasRun("player_health_is_fever_system")

\* C24: a tick has ended in which a hit on the player pushed Fever to 1.0
\* (the conversion left the player with health 0) and the win/lose check of
\* the same tick, which ran before the conversion, requested no GameOver
C24_Missed ==
    /\ pc = "idle"
    /\ \E k \in Hits : hit_log[k].tick = tick /\ hit_log[k].target = "P"
    /\ attackable["P"].exists
    /\ attackable["P"].health = 0
    /\ last_check.ran
    /\ last_check.tick = tick
    /\ last_check.fever < ONE
    /\ last_check.requested # "GameOver"
    /\ next_wog_state # "GameOver"

\* C24: the systems of the chain of main.rs run in the order of the chain,
\* and quantity_behaviors_system runs once in every tick
C24_ChainInOrder ==
    [][/\ (pc # "idle" /\ pc' # pc) => pc' = After(pc)
       /\ (pc # "idle" /\ pc' = "idle") => qb_done]_vars

\* the request of the win/lose check for a Fever and a Fervor
Requested(fever_q, fervor_q) ==
    IF FEq(effective_value(fever_q), ONE) THEN "GameOver"
    ELSE IF FGe(fervor_q.base, 9990) THEN "Win"
    ELSE "None"

\* C25 as stated: the win/lose check of a tick compares the Fever and the
\* base of Fervor that the decay of the same tick leaves
C25_AsStated ==
    [][DecayStep =>
          /\ last_check'.fever = effective_value(fever')
          /\ last_check'.fervor_base = fervor'.base
          /\ last_check'.requested = Requested(fever', fervor')]_vars

\* C25: the win/lose check of a tick is evaluated before the decay of the
\* tick: it compares the effective Fever and the base of Fervor that the
\* decay of the same tick has not yet touched
C25_CheckBeforeDecay ==
    [][DecayStep =>
          /\ last_check'.ran
          /\ last_check'.tick = tick
          /\ last_check'.fever = effective_value(fever)
          /\ last_check'.fervor_base = fervor.base
          /\ last_check'.requested = Requested(fever, fervor)
          /\ next_wog_state' =
                 (IF Requested(fever, fervor) = "None" THEN next_wog_state
                  ELSE Requested(fever, fervor))]_vars

\* C25 witness: quantity_behaviors_system has just run: its check saw the
\* base of Fervor below 0.999 and requested nothing, and its decay has left
\* the base of Fervor at 0.999 or more
C25_Witness ==
    /\ pc = qb_before
    /\ qb_done
    /\ last_check.ran
    /\ last_check.tick = tick
    /\ last_check.requested = "None"
    /\ last_check.fervor_base < 9990
    /\ fervor.base >= 9990
    /\ effective_value(fever) < ONE

\* ------------------------------------------------------------------------
\* Properties of the temporary Fever and of the gun (checked under SpecGun)

\* the gun of shooter s fires in the run of fire_gun_system about to be made
Fires(s) == gun[s].exists /\ gun[s].trigger /\ gun[s].cooldown = 0

\* C26 as stated: neither the decay nor the firing of the player changes the
\* base of Fever
C26_AsStated ==
    [][(DecayStep \/ StepOf("fire_gun_system")) => fever'.base = fever.base]_vars

\* C26: the decay multiplies the temporary stack of Fever by 0.3^dt and
\* leaves its base unchanged, but a shot of the player commits what is left
\* of the stack: the base of Fever becomes its effective value and the stack
\* becomes 0.1 * Coherence
C26_SpikeCommittedByNextShot ==
    [][/\ DecayStep =>
            /\ fever'.base = fever.base
            /\ fever'.temporary_stack = FMul(fever.temporary_stack, powf(3000, dt))
       /\ StepOf("fire_gun_system") =>
            IF Fires("P")
            THEN fever' = [base |-> effective_value(fever),
                           temporary_stack |-> FMul(1000, effective_value(coherence))]
            ELSE fever' = fever]_vars

\* C26 witness: the player has just fired for the second time, before the
\* spike of the first shot had decayed: the base of Fever is above its
\* initial value though the player was never hurt
C26_Witness ==
    /\ pc = After("fire_gun_system")
    /\ \E i \in 1 .. Len(bullets) :
         bullets[i].team = "Player" /\ bullets[i].lifetime = BulletLifetime("Player")
    /\ hit_log = <<>>
    /\ hurt_events = <<>>
    /\ fever.base > Fever_INITIAL
    /\ fever.temporary_stack > 0

\* ------------------------------------------------------------------------
\* Properties of the decay of Fervor (checked under SpecDecay)

\* C27: while nothing but the decay touches Fervor, a decay pass never
\* increases the effective value of Fervor, the value stays within [0,1],
\* and after the pass the temporary stack of Fervor is at least
\* max(-0.1, -base)
C27_FervorDecay ==
    [][DecayStep =>
          /\ effective_value(fervor') <= effective_value(fervor)
          /\ InUnitInterval(effective_value(fervor'))
          /\ fervor'.temporary_stack >= -1000
          /\ fervor'.temporary_stack >= -fervor'.base]_vars

\* C27 witness: with dt = 1.0 a decay pass after the first has run, the base
\* of Fervor has gone down from 0.5 and its stack has reached -0.1
C27_Witness ==
    /\ dt = 10000
    /\ tick >= 2
    /\ qb_done
    /\ fervor.temporary_stack = -1000
    /\ fervor.base > 1000
    /\ fervor.base < 5000

\* the bullets of the player that are in flight
PlayerBullets ==
    {i \in 1 .. Len(bullets) : bullets[i].team = "Player" /\ bullets[i].lifetime > 0}

\* two bullets of the player that are not of one shot were fired at least
\* base_cooldown apart (a bullet in flight ages by dt in every tick)
ShotsApart ==
    \A i, j \in PlayerBullets :
        bullets[i].lifetime > bullets[j].lifetime =>
            bullets[i].lifetime - bullets[j].lifetime >= base_cooldown("P")

\* the guns that fire in the run of fire_gun_system about to be made
Firing == {s \in Targets : Fires(s)}

\* C28: a gun fires in a tick only if its trigger is set and its cooldown is
\* exactly 0; firing clears the trigger and sets the cooldown to
\* base_cooldown; a trigger that is set stays set until the gun fires; two
\* shots of the gun of the player are at least base_cooldown apart
C28_GunCooldown ==
    [][/\ StepOf("fire_gun_system") =>
            /\ \A s \in Targets :
                  IF Fires(s)
                  THEN /\ ~gun'[s].trigger
                       /\ gun'[s].cooldown = base_cooldown(s)
                  ELSE gun'[s] = gun[s]
            /\ Len(bullets') = Len(bullets)
                   + (IF "P" \in Firing THEN BulletsPerShot("P") ELSE 0)
                   + Cardinality(Firing \ {"P"})
       /\ ~StepOf("fire_gun_system") =>
            /\ Len(bullets') <= Len(bullets)
            /\ \A s \in Targets :
                  (gun[s].exists /\ gun[s].trigger /\ gun'[s].exists) => gun'[s].trigger
       /\ ShotsApart']_vars

\* C28 witness: the player has just fired for the second time: the trigger
\* is clear, the cooldown is base_cooldown and the bullets of the first shot
\* are still in flight
C28_Witness ==
    /\ pc = After("fire_gun_system")
    /\ ~gun["P"].trigger
    /\ gun["P"].cooldown = base_cooldown("P")
    /\ \E i, j \in PlayerBullets :
         /\ bullets[i].lifetime = BulletLifetime("Player")
         /\ bullets[j].lifetime < BulletLifetime("Player")

\* C28 witness: fire_gun_system has just run with the trigger of the player
\* set and the gun not ready: the trigger is still set
C28_Latched ==
    /\ pc = After("fire_gun_system")
    /\ gun["P"].trigger
    /\ gun["P"].cooldown > 0

\* ------------------------------------------------------------------------
\* Properties of the temporary Coherence (checked under Spec)

\* C29: the temporary stack of Coherence is never positive: the shots of the
\* player stack -0.1 on it, the hits of the player and the Cohere pickups
\* clear it, and the decay of a tick of at most a second shrinks it towards 0
C29_PendingLoss == ~IsNaN(coherence.temporary_stack) /\ coherence.temporary_stack <= 0

\* C29 witness: the player has just fired while a loss was pending, and the
\* two losses are stacked
C29_Witness ==
    /\ pc = After("fire_gun_system")
    /\ \E i \in 1 .. Len(bullets) :
         bullets[i].team = "Player" /\ bullets[i].lifetime = BulletLifetime("Player")
    /\ coherence.temporary_stack < -1000

\* C29 witness: the player has just picked up a Cohere pickup: the base of
\* Coherence is above what it was and the stack is empty
C29_PickedUp ==
    /\ pc = After("pickup_system")
    /\ coherence.base > 8000
    /\ coherence.temporary_stack = 0

\* C29 witness: a decay has just run on a pending loss and has left a
\* smaller one
C29_Decayed ==
    /\ pc = qb_before
    /\ qb_done
    /\ coherence.temporary_stack < 0
    /\ coherence.temporary_stack > -1000
    /\ coherence.base < 8000

\* ------------------------------------------------------------------------
\* Properties of the life of a bullet (checked under Spec)

\* bullet number i has applied a hit
HasHit(i) == \E k \in Hits : hit_log[k].bullet = bullets[i].id

\* C30: a bullet applies damage in one tick of its life at most:
\* expire_lifetimes of the next tick despawns every bullet that has applied a
\* hit, whatever it overlaps, so all the hits of a bullet are of one tick
C30_OneTickOfDamage ==
    [][/\ StepOf("expire_lifetimes") =>
            \A i \in 1 .. Len(bullets) :
                HasHit(i) => \A j \in 1 .. Len(bullets') : bullets'[j].id # bullets[i].id
       /\ \A j, k \in 1 .. Len(hit_log') :
            hit_log'[j].bullet = hit_log'[k].bullet => hit_log'[j].tick = hit_log'[k].tick]_vars

\* C30 witness: bullet_hit_system has just run in the tick after a hit that
\* left its target alive: the bullet is gone and the target has not been hit
\* again
C30_Witness ==
    /\ pc = After("bullet_hit_system")
    /\ \E k \in Hits :
         /\ hit_log[k].tick = tick - 1
         /\ hit_log[k].after > 0
         /\ ~BulletExists(hit_log[k].bullet)
         /\ attackable[hit_log[k].target].exists
         /\ attackable[hit_log[k].target].health = hit_log[k].after
         /\ \A j \in Hits : hit_log[j].tick = tick => hit_log[j].target # hit_log[k].target

\* C30 witness: a tick starts in which a bullet that hit in the tick before
\* still overlaps its target, which is alive
C30_StillOverlaps ==
    /\ pc = "expire_lifetimes"
    /\ \E i \in 1 .. Len(bullets) : \E k \in Hits :
         /\ hit_log[k].bullet = bullets[i].id
         /\ hit_log[k].tick = tick - 1
         /\ bullets[i].lifetime = 0
         /\ hit_log[k].target \in bullets[i].colliding
         /\ attackable[hit_log[k].target].exists
         /\ attackable[hit_log[k].target].health > 0

====
